---- MODULE Spec2Model ----
(***************************************************************************)
(* Model of the background-check lookup tool:                              *)
(*   src/app/api/roblox/user/route.ts  (profile aggregator, two variants)  *)
(*   src/app/api/evaluate/route.ts     (requirement + blacklist scorer)    *)
(*                                                                         *)
(* Three specifications share the variables below:                         *)
(*   SpecScore  the pure scorers applied to drawn inputs                   *)
(*   Spec       one GET /api/roblox/user request against a                 *)
(*              nondeterministic upstream                                  *)
(*   SpecEval   one GET /api/evaluate request                              *)
(***************************************************************************)
EXTENDS Integers, Sequences, FiniteSets, TLC

(***************************************************************************)
(* JavaScript values.  null/undefined is the empty tuple, a present value  *)
(* v is <<v>>; `a ?? d` is Coalesce(a, d).                                  *)
(***************************************************************************)
Null == << >>

Some(v) == << v >>

IsNull(a) == a = Null

Coalesce(a, d) == IF a = Null THEN d ELSE a[1]

Max2(a, b) == IF a >= b THEN a ELSE b

Min2(a, b) == IF a <= b THEN a ELSE b

(***************************************************************************)
(* Bounds of the model (not program constants).                            *)
(***************************************************************************)
\* largest account age (days), badge, friend and group count drawn
MaxAge == 61
MaxBadges == 301
MaxFriends == 21
MaxGroups == 11
\* largest number of entries in each blacklist category
MaxMatches == 1

(***************************************************************************)
(* user/route.ts:7-12  REQUIREMENTS (the same four numbers are REQ in the  *)
(* gap-point variant, lines 451-456, and `requirements` in evaluate,       *)
(* lines 240-245).                                                         *)
(***************************************************************************)
REQUIREMENTS ==
  [minAccountAgeDays |-> 60, minBadges |-> 300, minFriends |-> 20, minGroups |-> 10]

requirements ==
  [minAgeDays |-> 60, minBadges |-> 300, minFriends |-> 20, minGroups |-> 10]

(***************************************************************************)
(* user/route.ts:31-138  computeRisk (risk-scoring variant).               *)
(* metrics = [ageDays, badges, friends, groups : nullable number,          *)
(*            groupsVerified, badgesVerified, friendsVerified : BOOLEAN]   *)
(***************************************************************************)
\* lines 43-59: points for the inputs that could not be verified
unverifiedPoints(metrics) ==
    (IF IsNull(metrics.ageDays) THEN 25 ELSE 0)
  + (IF ~metrics.friendsVerified THEN 15 ELSE 0)
  + (IF ~metrics.badgesVerified THEN 15 ELSE 0)
  + (IF ~metrics.groupsVerified THEN 20 ELSE 0)

\* lines 44-59: the "could not verify" factors, in push order
unverifiedFactors(metrics) ==
     (IF IsNull(metrics.ageDays) THEN <<"Could not verify account age.">> ELSE << >>)
  \o (IF ~metrics.friendsVerified THEN <<"Could not verify friends list/count.">> ELSE << >>)
  \o (IF ~metrics.badgesVerified THEN <<"Could not verify badge count.">> ELSE << >>)
  \o (IF ~metrics.groupsVerified THEN <<"Could not verify groups.">> ELSE << >>)

\* sensitivity of C3: an age tier that starts strictly above the minimum
agePoints_strict(ageDays) ==
  IF ageDays > REQUIREMENTS.minAccountAgeDays THEN 0
  ELSE IF ageDays >= 50 THEN 10
  ELSE IF ageDays >= 40 THEN 20
  ELSE IF ageDays >= 30 THEN 35
  ELSE 45

\* sensitivity of C5: the points of the 50-59 and 40-49 tiers exchanged
agePoints_swapped(ageDays) ==
  IF ageDays >= REQUIREMENTS.minAccountAgeDays THEN 0
  ELSE IF ageDays >= 50 THEN 20
  ELSE IF ageDays >= 40 THEN 10
  ELSE IF ageDays >= 30 THEN 35
  ELSE 45

\* lines 74-82
agePoints(ageDays) ==
  IF ageDays >= REQUIREMENTS.minAccountAgeDays THEN 0
  ELSE IF ageDays >= 50 THEN 10
  ELSE IF ageDays >= 40 THEN 20
  ELSE IF ageDays >= 30 THEN 35
  ELSE 45

\* lines 84-91
badgePoints(badges) ==
  IF badges >= REQUIREMENTS.minBadges THEN 0
  ELSE IF badges >= 250 THEN 10
  ELSE IF badges >= 200 THEN 18
  ELSE IF badges >= 150 THEN 28
  ELSE IF badges >= 100 THEN 38
  ELSE 45

\* lines 93-99
friendPoints(friends) ==
  IF friends >= REQUIREMENTS.minFriends THEN 0
  ELSE IF friends >= 15 THEN 10
  ELSE IF friends >= 10 THEN 18
  ELSE IF friends >= 5 THEN 28
  ELSE 40

\* lines 101-107
groupPoints(groups) ==
  IF groups >= REQUIREMENTS.minGroups THEN 0
  ELSE IF groups >= 8 THEN 10
  ELSE IF groups >= 6 THEN 18
  ELSE IF groups >= 3 THEN 28
  ELSE 40

\* lines 41-107: the score before the clamp
rawScore(metrics) ==
  LET ageDays == Coalesce(metrics.ageDays, 0)
      friends == Coalesce(metrics.friends, 0)
      badges  == Coalesce(metrics.badges, 0)
      groups  == Coalesce(metrics.groups, 0)
  IN  unverifiedPoints(metrics) + agePoints(ageDays) + badgePoints(badges)
        + friendPoints(friends) + groupPoints(groups)

\* line 110
failedCount(metrics) ==
  LET ageOk     == Coalesce(metrics.ageDays, 0) >= REQUIREMENTS.minAccountAgeDays
      friendsOk == Coalesce(metrics.friends, 0) >= REQUIREMENTS.minFriends
      badgesOk  == Coalesce(metrics.badges, 0) >= REQUIREMENTS.minBadges
      groupsOk  == Coalesce(metrics.groups, 0) >= REQUIREMENTS.minGroups
  IN  Cardinality({i \in 1..4 : ~(<<ageOk, friendsOk, badgesOk, groupsOk>>[i])})

\* lines 113-117
severe(metrics) ==
  \/ Coalesce(metrics.ageDays, 0) < 45
  \/ Coalesce(metrics.badges, 0) < 150
  \/ Coalesce(metrics.friends, 0) < 10
  \/ Coalesce(metrics.groups, 0) < 5

\* sensitivity of C24: LOW decided on the score alone, up to 10 points
userLevel_lenient(metrics) ==
  LET score == rawScore(metrics)
      failed == failedCount(metrics)
  IN  IF score <= 10 THEN "LOW"
      ELSE IF failed >= 2 \/ severe(metrics) \/ score >= 60
           THEN "HIGH"
           ELSE "MEDIUM"

\* sensitivity of C6: HIGH for exactly two failed requirements only
userLevel_exactlyTwo(metrics) ==
  LET score == rawScore(metrics)
      failed == failedCount(metrics)
  IN  IF failed = 0 /\ score <= 5 THEN "LOW"
      ELSE IF failed = 2 \/ severe(metrics) \/ score >= 60
           THEN "HIGH"
           ELSE "MEDIUM"

\* lines 120-132
userLevel(metrics) ==
  LET score == rawScore(metrics)
      failed == failedCount(metrics)
  IN  IF failed = 0 /\ score <= 5 THEN "LOW"
      ELSE IF failed >= 2 \/ severe(metrics) \/ score >= 60
           THEN "HIGH"
           ELSE "MEDIUM"

\* line 135
userScore(metrics) == Max2(0, Min2(100, rawScore(metrics)))

\* lines 40-107 and 124: the factor list, in push order
userFactors(metrics) ==
  LET ageDays == Coalesce(metrics.ageDays, 0)
      friends == Coalesce(metrics.friends, 0)
      badges  == Coalesce(metrics.badges, 0)
      groups  == Coalesce(metrics.groups, 0)
      pushed ==
           unverifiedFactors(metrics)
        \o (IF ageDays >= REQUIREMENTS.minAccountAgeDays THEN << >>
            ELSE <<"Account age is below 60 days (" \o ToString(ageDays) \o "d).">>)
        \o (IF badges >= REQUIREMENTS.minBadges THEN << >>
            ELSE <<"Badge count is below 300 (" \o ToString(badges) \o ").">>)
        \o (IF friends >= REQUIREMENTS.minFriends THEN << >>
            ELSE <<"Friends count is below 20 (" \o ToString(friends) \o ").">>)
        \o (IF groups >= REQUIREMENTS.minGroups THEN << >>
            ELSE <<"Groups/community count is below 10 (" \o ToString(groups) \o ").">>)
  IN  IF failedCount(metrics) = 0 /\ rawScore(metrics) <= 5 /\ Len(pushed) = 0
      THEN <<"Meets all BGC requirements.">>
      ELSE pushed

computeRisk_user(metrics) ==
  [level |-> userLevel(metrics), score |-> userScore(metrics), factors |-> userFactors(metrics)]

(***************************************************************************)
(* Time.  Timestamps are counted in hours since the epoch, so the day of   *)
(* 1000 * 60 * 60 * 24 ms is DayLength hours.  A date string is            *)
(* [s, t]: s = "iso" parses to the timestamp t, s = "garbage" parses to    *)
(* NaN, s = "empty" is the empty string.                                    *)
(***************************************************************************)
DayLength == 24

\* Date.now(): the server clock while the request runs
Now == 20000 * DayLength

EmptyStr == [s |-> "empty", t |-> 0]

GarbageStr == [s |-> "garbage", t |-> 0]

IsoAt(t) == [s |-> "iso", t |-> t]

\* new Date(str).getTime(): Null stands for NaN
DateGetTime(str) == IF str.s = "iso" THEN Some(str.t) ELSE Null

\* JavaScript truthiness of a nullable string
Truthy(a) == ~IsNull(a) /\ a[1].s # "empty"

\* sensitivity of C1: a date that does not parse counted as an age of 0 days
accountAgeDays_zero(createdISO) ==
  LET created == DateGetTime(createdISO)
  IN  IF IsNull(created) THEN Some(0)
      ELSE Some((Now - created[1]) \div DayLength)

(***************************************************************************)
(* user/route.ts:17-23  accountAgeDays: Null when the date does not parse   *)
(***************************************************************************)
accountAgeDays(createdISO) ==
  LET created == DateGetTime(createdISO)
  IN  IF IsNull(created) THEN Null
      ELSE Some((Now - created[1]) \div DayLength)

\* user/route.ts:370  `created` is the nullable user.created
ageDaysOf(created) == IF Truthy(created) THEN accountAgeDays(created[1]) ELSE Null

\* user/route.ts:232, 290, 332-336, 372-380: the metrics handed to
\* computeRisk; a count is null exactly when its fetch was not verified
riskMetrics(created, friendsLen, groupsLen, badgeTotal, fv, gv, bv) ==
  [ageDays |-> ageDaysOf(created),
   badges  |-> IF bv THEN Some(badgeTotal) ELSE Null,
   friends |-> IF fv THEN Some(friendsLen) ELSE Null,
   groups  |-> IF gv THEN Some(groupsLen) ELSE Null,
   groupsVerified |-> gv, badgesVerified |-> bv, friendsVerified |-> fv]

(***************************************************************************)
(* user/route.ts:433-438  daysSince (gap-point variant)                     *)
(***************************************************************************)
daysSince_gap(isoDate) ==
  LET created == DateGetTime(isoDate)
  IN  IF IsNull(created) \/ created[1] = 0 THEN 0
      ELSE (Now - created[1]) \div DayLength

(***************************************************************************)
(* user/route.ts:442-539  computeRisk (gap-point variant)                   *)
(* params = [createdISO, friendsCount, groupsCount, badgesCount]            *)
(***************************************************************************)
\* lines 469-480
gapAge(ageDays) ==
  IF ageDays >= 60 THEN 0 ELSE IF ageDays >= 50 THEN 1 ELSE IF ageDays >= 30 THEN 2 ELSE 3

\* lines 483-494
gapBadges(badgesCount) ==
  IF badgesCount >= 300 THEN 0 ELSE IF badgesCount >= 250 THEN 1
  ELSE IF badgesCount >= 150 THEN 2 ELSE 3

\* lines 497-508
gapFriends(friendsCount) ==
  IF friendsCount >= 20 THEN 0 ELSE IF friendsCount >= 15 THEN 1
  ELSE IF friendsCount >= 8 THEN 2 ELSE 3

\* lines 511-522
gapGroups(groupsCount) ==
  IF groupsCount >= 10 THEN 0 ELSE IF groupsCount >= 8 THEN 1
  ELSE IF groupsCount >= 4 THEN 2 ELSE 3

gapScore(params) ==
    gapAge(daysSince_gap(params.createdISO)) + gapBadges(params.badgesCount)
  + gapFriends(params.friendsCount) + gapGroups(params.groupsCount)

\* sensitivity of C7: High from 12 gap points on
gapLevel_late(params) ==
  LET score == gapScore(params)
  IN  IF score >= 12 THEN "High" ELSE IF score >= 3 THEN "Medium" ELSE "Low"

\* lines 525-527
gapLevel(params) ==
  LET score == gapScore(params)
  IN  IF score >= 8 THEN "High" ELSE IF score >= 3 THEN "Medium" ELSE "Low"

\* lines 469-522: the factor list, in push order
gapFactors(params) ==
  LET ageDays == daysSince_gap(params.createdISO)
      b == params.badgesCount
      f == params.friendsCount
      g == params.groupsCount
  IN   (CASE gapAge(ageDays) = 0 -> << >>
          [] gapAge(ageDays) = 1 ->
               <<"Account age is under 60 days (" \o ToString(ageDays) \o "d).">>
          [] gapAge(ageDays) = 2 -> <<"Account age is low (" \o ToString(ageDays) \o "d).">>
          [] OTHER -> <<"Account age is very low (" \o ToString(ageDays) \o "d).">>)
    \o (CASE gapBadges(b) = 0 -> << >>
          [] gapBadges(b) = 1 -> <<"Badges are slightly under 300 (" \o ToString(b) \o ").">>
          [] gapBadges(b) = 2 -> <<"Badges are low (" \o ToString(b) \o ").">>
          [] OTHER -> <<"Badges are very low (" \o ToString(b) \o ").">>)
    \o (CASE gapFriends(f) = 0 -> << >>
          [] gapFriends(f) = 1 -> <<"Friends are slightly under 20 (" \o ToString(f) \o ").">>
          [] gapFriends(f) = 2 -> <<"Friends are low (" \o ToString(f) \o ").">>
          [] OTHER -> <<"Friends are very low (" \o ToString(f) \o ").">>)
    \o (CASE gapGroups(g) = 0 -> << >>
          [] gapGroups(g) = 1 -> <<"Groups are slightly under 10 (" \o ToString(g) \o ").">>
          [] gapGroups(g) = 2 -> <<"Groups are low (" \o ToString(g) \o ").">>
          [] OTHER -> <<"Groups are very low (" \o ToString(g) \o ").">>)

\* line 530
gapWarnings(params) ==
  IF daysSince_gap(params.createdISO) = 0
  THEN <<"Could not determine account age (missing/invalid created date).">>
  ELSE << >>

computeRisk_gap(params) ==
  [level |-> gapLevel(params), score |-> gapScore(params), factors |-> gapFactors(params),
   warnings |-> gapWarnings(params), ageDays |-> daysSince_gap(params.createdISO)]

(***************************************************************************)
(* evaluate/route.ts:87-93  daysSince.  dateIso is a nullable date string.  *)
(***************************************************************************)
daysSince(dateIso) ==
  IF ~Truthy(dateIso) THEN 0
  ELSE LET d == DateGetTime(dateIso[1])
       IN  IF IsNull(d) THEN 0
           ELSE Max2(0, (Now - d[1]) \div DayLength)

(***************************************************************************)
(* evaluate/route.ts:95-114  buildCounts.  Every field of profile is        *)
(* nullable; badgesLen and groupsLen are the lengths of profile.badges and  *)
(* profile.groups when those arrays are present.                            *)
(***************************************************************************)
buildCounts(profile) ==
  [accountAgeDays |->
     IF ~IsNull(profile.accountAgeDays) /\ Coalesce(profile.accountAgeDays, 0) > 0
     THEN profile.accountAgeDays[1]
     ELSE daysSince(profile.created),
   totalBadges  |-> Coalesce(profile.totalBadges, Coalesce(profile.badgesLen, 0)),
   friendsCount |-> Coalesce(profile.friendsCount, 0),
   groupsCount  |-> Coalesce(profile.groupsCount, Coalesce(profile.groupsLen, 0))]

(***************************************************************************)
(* evaluate/route.ts:126-173  computeRequirementRisk                        *)
(***************************************************************************)
\* lines 137-141
reqAge(counts, req) ==
  IF counts.accountAgeDays < req.minAgeDays
  THEN LET deficit == req.minAgeDays - counts.accountAgeDays
       IN  IF deficit <= 10 THEN 2 ELSE IF deficit <= 30 THEN 5 ELSE 8
  ELSE 0

\* lines 146-150
reqBadges(counts, req) ==
  IF counts.totalBadges < req.minBadges
  THEN LET deficit == req.minBadges - counts.totalBadges
       IN  IF deficit <= 75 THEN 2 ELSE IF counts.totalBadges >= 150 THEN 5 ELSE 8
  ELSE 0

\* lines 155-159
reqFriends(counts, req) ==
  IF counts.friendsCount < req.minFriends
  THEN LET deficit == req.minFriends - counts.friendsCount
       IN  IF deficit <= 5 THEN 2 ELSE IF counts.friendsCount >= 10 THEN 5 ELSE 8
  ELSE 0

\* lines 164-168
reqGroups(counts, req) ==
  IF counts.groupsCount < req.minGroups
  THEN LET deficit == req.minGroups - counts.groupsCount
       IN  IF deficit <= 3 THEN 2 ELSE IF counts.groupsCount >= 3 THEN 5 ELSE 8
  ELSE 0

requirementScore(counts, req) ==
  reqAge(counts, req) + reqBadges(counts, req) + reqFriends(counts, req) + reqGroups(counts, req)

\* lines 142, 151, 160, 169: the factor list, in push order
requirementFactors(counts, req) ==
     (IF counts.accountAgeDays < req.minAgeDays
      THEN <<"Account age below " \o ToString(req.minAgeDays) \o " days ("
               \o ToString(counts.accountAgeDays) \o ").">>
      ELSE << >>)
  \o (IF counts.totalBadges < req.minBadges
      THEN <<"Badges below " \o ToString(req.minBadges) \o " ("
               \o ToString(counts.totalBadges) \o ").">>
      ELSE << >>)
  \o (IF counts.friendsCount < req.minFriends
      THEN <<"Friends below " \o ToString(req.minFriends) \o " ("
               \o ToString(counts.friendsCount) \o ").">>
      ELSE << >>)
  \o (IF counts.groupsCount < req.minGroups
      THEN <<"Groups below " \o ToString(req.minGroups) \o " ("
               \o ToString(counts.groupsCount) \o ").">>
      ELSE << >>)

computeRequirementRisk(counts, req) ==
  [score |-> requirementScore(counts, req), factors |-> requirementFactors(counts, req)]

(***************************************************************************)
(* evaluate/route.ts:175-217  computeRisk.  blacklist = [blacklistedGroups, *)
(* blacklistedFriends, crossDivision : sequences of entries].               *)
(***************************************************************************)
\* sensitivity of C14: cross-division entries left out of the score
blacklistPoints_noCross(blacklist) ==
    (IF Len(blacklist.blacklistedGroups) > 0 THEN Len(blacklist.blacklistedGroups) * 6 ELSE 0)
  + (IF Len(blacklist.blacklistedFriends) > 0 THEN Len(blacklist.blacklistedFriends) * 5 ELSE 0)

\* sensitivity of C4: blacklisted friends left out of the score
blacklistPoints_noFriends(blacklist) ==
    (IF Len(blacklist.blacklistedGroups) > 0 THEN Len(blacklist.blacklistedGroups) * 6 ELSE 0)
  + (IF Len(blacklist.crossDivision) > 0 THEN Len(blacklist.crossDivision) * 8 ELSE 0)

\* lines 189-203: the blacklist points
blacklistPoints(blacklist) ==
    (IF Len(blacklist.blacklistedGroups) > 0 THEN Len(blacklist.blacklistedGroups) * 6 ELSE 0)
  + (IF Len(blacklist.blacklistedFriends) > 0 THEN Len(blacklist.blacklistedFriends) * 5 ELSE 0)
  + (IF Len(blacklist.crossDivision) > 0 THEN Len(blacklist.crossDivision) * 8 ELSE 0)

\* lines 179-203
evalScore(blacklist, counts, req) ==
  requirementScore(counts, req) + blacklistPoints(blacklist)

\* lines 209-211
evalLevel(blacklist, counts, req) ==
  LET score == evalScore(blacklist, counts, req)
  IN  IF score >= 12 THEN "High" ELSE IF score >= 4 THEN "Medium" ELSE "Low"

\* lines 186-203 and 214
evalFactors(blacklist, counts, req) ==
  LET factors ==
           requirementFactors(counts, req)
        \o (IF Len(blacklist.blacklistedGroups) > 0
            THEN <<"Member of blacklisted groups.">> ELSE << >>)
        \o (IF Len(blacklist.blacklistedFriends) > 0
            THEN <<"Friends with blacklisted users.">> ELSE << >>)
        \o (IF Len(blacklist.crossDivision) > 0
            THEN <<"Blacklisted in other divisions.">> ELSE << >>)
  IN  IF Len(factors) > 0 THEN factors ELSE <<"No specific risk factors detected.">>

\* lines 199-203
evalWarnings(blacklist) ==
  IF Len(blacklist.crossDivision) > 0
  THEN <<"Cross-division blacklist detected.">> ELSE << >>

computeRisk_eval(blacklist, counts, req) ==
  [level |-> evalLevel(blacklist, counts, req), score |-> evalScore(blacklist, counts, req),
   factors |-> evalFactors(blacklist, counts, req), warnings |-> evalWarnings(blacklist),
   requirements |-> req, counts |-> counts]

(***************************************************************************)
(* Strings that travel through URLs are tuples of one-character strings.   *)
(***************************************************************************)
\* RFC 3986 unreserved characters and ! ~ * ' ( ), which encodeURIComponent
\* leaves alone (the ones the model's cursors use)
UriUnescaped == {"a", "b", "c", "d", "e", "0", "1", "2", "3", "5", "6", "B", "D", "F",
                 "-", "_", ".", "!", "~", "*", "'", "(", ")"}

\* the UTF-8 percent-encoding of the other characters of the model
PercentCode(ch) ==
  CASE ch = "+" -> <<"%", "2", "B">>
    [] ch = "&" -> <<"%", "2", "6">>
    [] ch = "=" -> <<"%", "3", "D">>
    [] ch = "%" -> <<"%", "2", "5">>
    [] ch = "/" -> <<"%", "2", "F">>
    [] ch = " " -> <<"%", "2", "0">>
    [] ch = "#" -> <<"%", "2", "3">>

RECURSIVE encodeURIComponent(_)
encodeURIComponent(str) ==
  IF str = << >> THEN << >>
  ELSE (IF Head(str) \in UriUnescaped THEN <<Head(str)>> ELSE PercentCode(Head(str)))
         \o encodeURIComponent(Tail(str))

\* the character a percent-escape stands for
PercentChar(h1, h2) ==
  CASE <<h1, h2>> = <<"2", "B">> -> "+"
    [] <<h1, h2>> = <<"2", "6">> -> "&"
    [] <<h1, h2>> = <<"3", "D">> -> "="
    [] <<h1, h2>> = <<"2", "5">> -> "%"
    [] <<h1, h2>> = <<"2", "F">> -> "/"
    [] <<h1, h2>> = <<"2", "0">> -> " "
    [] <<h1, h2>> = <<"2", "3">> -> "#"

\* the text of a query parameter ends at the next "&" or "#"
RECURSIVE ParamText(_)
ParamText(text) ==
  IF text = << >> \/ Head(text) \in {"&", "#"} THEN << >>
  ELSE <<Head(text)>> \o ParamText(Tail(text))

\* form-urlencoded decoding: "+" is a space, %XX is the escaped character
RECURSIVE UrlDecode(_)
UrlDecode(text) ==
  IF text = << >> THEN << >>
  ELSE IF Head(text) = "+" THEN <<" ">> \o UrlDecode(Tail(text))
  ELSE IF Head(text) = "%" /\ Len(text) >= 3
       THEN <<PercentChar(text[2], text[3])>> \o UrlDecode(SubSeq(text, 4, Len(text)))
  ELSE <<Head(text)>> \o UrlDecode(Tail(text))

\* the value the upstream reads for `cursor` from a URL that ends in
\* "&cursor=" followed by `text`; Null when the URL has no cursor parameter
CursorReceived(url) ==
  IF IsNull(url.cursorText) THEN Null ELSE Some(UrlDecode(ParamText(url.cursorText[1])))

\* a nullable string is truthy when present and not empty
CursorTruthy(cursor) == ~IsNull(cursor) /\ cursor[1] # << >>

(***************************************************************************)
(* The upstream.  Every fetch ends in one of: a 2xx response with a JSON    *)
(* body, a non-2xx response, or an exception (the fetch rejects, or         *)
(* res.json() throws on a malformed body).                                  *)
(***************************************************************************)
\* most responses that announce a further page, in one request
MaxMore == 2
\* most secondary calls that fail (non-2xx or exception), in one request
MaxFaults == 2
\* friends on the first page of the friends list; later pages carry one
FirstPageFriends == 19
\* groups returned by the groups endpoint
GroupsListed == 10

\* non-2xx statuses the upstream answers with
ErrorStatuses == {404, 503}

NoJson ==
  [data |-> Null, nextPageCursor |-> Null, total |-> Null, count |-> Null, body |-> Null]

OkRes(json) == [kind |-> "ok", status |-> 200, json |-> json]

StatusRes(status) == [kind |-> "status", status |-> status, json |-> NoJson]

ThrowRes == [kind |-> "throw", status |-> 0, json |-> NoJson]

\* res.ok
Ok(res) == res.kind = "ok"

\* cursors the upstream hands out: opaque tokens, some with characters that
\* are reserved in a query string
Cursors == { <<"a", "1">>, <<"b", "+", "c">> }

(***************************************************************************)
(* State.                                                                  *)
(*   scoreIn, scoreOut   SpecScore: the drawn metrics, and the scorer      *)
(*                       applied to them with its arguments and result     *)
(*   variant .. response Spec: one GET /api/roblox/user request.           *)
(*       variant 1 is the risk-scoring handler (user/route.ts:140-428),    *)
(*       variant 2 the second handler of the file (lines 541-774);         *)
(*       pc is the handler's position, calls the upstream calls made so    *)
(*       far with their outcomes, the rest are the handler's locals        *)
(*   evVariant .. evResponse  SpecEval: one GET /api/evaluate request.      *)
(*       evVariant 1 is the requirement + blacklist handler                *)
(*       (evaluate/route.ts:221-299), 2 the blacklist-only handler (lines  *)
(*       403-443); evQuery is the query string, tables the module-level    *)
(*       blacklist tables, evCalls the calls made to /api/roblox/user      *)
(*   page .. event  SpecPage: the wizard of page.tsx.  page is the variant  *)
(*       of the page (1: lines 64-356, 2: lines 583-933, 3: lines          *)
(*       1308-1637); step .. pageRisk are its useState cells (profile,     *)
(*       blacklist and risk are pageProfile, pageBlacklist and pageRisk);  *)
(*       pending holds the analyze calls waiting at a fetch, analyses      *)
(*       counts the analyze calls started, event names the last handler    *)
(***************************************************************************)
VARIABLES scoreIn, scoreOut,
          variant, pc, idParam, user, avatarUrl,
          friends, friendsCursor, friendsVerified,
          followersCount, followingCount,
          groups, groupsVerified,
          badges, badgesCursor, totalBadges, badgesVerified,
          usernameHistory, namesCursor,
          calls, response,
          evVariant, evPc, evQuery, tables, evCalls, evResponse,
          page, step, divisionId, userIdInput, loading, err,
          pageProfile, evaluation, pageBlacklist, pageRisk,
          pending, analyses, event

scoreVars == <<scoreIn, scoreOut>>

userVars == <<variant, pc, idParam, user, avatarUrl, friends, friendsCursor, friendsVerified,
              followersCount, followingCount, groups, groupsVerified,
              badges, badgesCursor, totalBadges, badgesVerified,
              usernameHistory, namesCursor, calls, response>>

evalVars == <<evVariant, evPc, evQuery, tables, evCalls, evResponse>>

pageVars == <<page, step, divisionId, userIdInput, loading, err,
              pageProfile, evaluation, pageBlacklist, pageRisk,
              pending, analyses, event>>

vars == <<scoreVars, userVars, evalVars, pageVars>>

\* the locals of the handler as declared (user/route.ts:179, 198-200,
\* 237-238, 265-266, 295-298, 341-342 and 580, 599-600, 632-633, 660,
\* 683-685, 719-720)
UserLocalsInit(v) ==
  /\ user = Null
  /\ avatarUrl = Null
  /\ friends = << >> /\ friendsCursor = Null /\ friendsVerified = TRUE
  /\ followersCount = 0 /\ followingCount = 0
  /\ groups = << >> /\ groupsVerified = TRUE
  /\ badges = << >> /\ badgesCursor = Null /\ badgesVerified = TRUE
  /\ totalBadges = (IF v = 1 THEN Null ELSE Some(0))
  /\ usernameHistory = << >> /\ namesCursor = Null
  /\ calls = << >>
  /\ response = Null

\* no request is being served
UserIdle ==
  /\ variant = 0 /\ pc = "idle" /\ idParam = Null
  /\ UserLocalsInit(0)

NoTables == [BLACKLISTED_GROUPS |-> << >>, BLACKLISTED_FRIENDS |-> << >>, crossDivisionIds |-> << >>]

EvalIdle ==
  /\ evVariant = 0 /\ evPc = "idle" /\ evQuery = [id |-> Null, division |-> Null]
  /\ tables = NoTables /\ evCalls = << >> /\ evResponse = Null

\* page.tsx:65-73 (and 584-592, 1309-1317): the initial useState values
PageCells ==
  /\ step = "division" /\ divisionId = "default" /\ userIdInput = ""
  /\ loading = FALSE /\ err = Null
  /\ pageProfile = Null /\ evaluation = Null /\ pageBlacklist = Null /\ pageRisk = Null
  /\ pending = {} /\ analyses = 0

PageIdle == page = 0 /\ event = "none" /\ PageCells


(***************************************************************************)
(* SpecScore: the scorers as pure functions.  The metrics are drawn at the *)
(* tier boundaries of the four scorers, the value just below each minimum, *)
(* zero and the largest value of the model; an account age of -1 is a      *)
(* creation date later than the server clock.                              *)
(***************************************************************************)
AgeInputs == {-1, 0, 30, 40, 45, 50, 59, 60, MaxAge}

BadgeInputs == {0, 100, 150, 200, 225, 250, 299, 300, MaxBadges}

FriendInputs == {0, 5, 8, 10, 15, 19, 20, MaxFriends}

GroupInputs == {0, 3, 4, 5, 6, 7, 8, 9, 10, MaxGroups}

\* a blacklist category with n entries
Entries(n) == [i \in 1..n |-> [id |-> i]]

BlacklistResults ==
  { [blacklistedGroups |-> Entries(g), blacklistedFriends |-> Entries(f),
     crossDivision |-> Entries(c)] : g \in 0..MaxMatches, f \in 0..MaxMatches, c \in 0..MaxMatches }

NoBlacklist == [blacklistedGroups |-> << >>, blacklistedFriends |-> << >>, crossDivision |-> << >>]

NoRisk == [level |-> "", score |-> 0, factors |-> << >>]

ScoreIdle == [scorer |-> "none", args |-> << >>, created |-> Null, risk |-> NoRisk]

InitScoreInputs ==
  scoreIn \in [age : AgeInputs, badges : BadgeInputs, friends : FriendInputs, groups : GroupInputs]

InitScore == InitScoreInputs /\ scoreOut = ScoreIdle /\ UserIdle /\ EvalIdle /\ PageIdle

\* user.created values of an account created `age` days before the server
\* clock (on the hour, or 23 hours earlier), and the values with no date
CreatedAt(age) ==
  { Some(IsoAt(Now - age * DayLength - h)) : h \in {0, DayLength - 1} }

CreatedUnknown == { Null, Some(EmptyStr), Some(GarbageStr) }

UserMetrics(in, created, fv, bv, gv) ==
  riskMetrics(created, in.friends, in.groups, in.badges, fv, gv, bv)

VerifiedMetrics(in) == UserMetrics(in, Some(IsoAt(Now - in.age * DayLength)), TRUE, TRUE, TRUE)

\* the parameters of the gap-point computeRisk for an account created
\* `age` days and `h` hours before the server clock
GapParams(in, h) ==
  [createdISO |-> IsoAt(Now - in.age * DayLength - h), friendsCount |-> in.friends,
   groupsCount |-> in.groups, badgesCount |-> in.badges]

EvalCounts(in) ==
  [accountAgeDays |-> in.age, totalBadges |-> in.badges,
   friendsCount |-> in.friends, groupsCount |-> in.groups]

ApplyUserRisk ==
  /\ scoreOut.scorer = "none"
  /\ \E created \in CreatedAt(scoreIn.age) \cup CreatedUnknown,
        fv \in BOOLEAN, bv \in BOOLEAN, gv \in BOOLEAN :
       LET metrics == UserMetrics(scoreIn, created, fv, bv, gv)
       IN  scoreOut' = [scorer |-> "user", args |-> <<metrics>>, created |-> created,
                        risk |-> computeRisk_user(metrics)]
  /\ UNCHANGED <<scoreIn, userVars, evalVars, pageVars>>

ApplyGapRisk ==
  /\ scoreOut.scorer = "none"
  /\ \E h \in {0, DayLength - 1} :
       LET params == GapParams(scoreIn, h)
       IN  scoreOut' = [scorer |-> "gap", args |-> <<params>>, created |-> Null, risk |-> computeRisk_gap(params)]
  /\ UNCHANGED <<scoreIn, userVars, evalVars, pageVars>>

ApplyRequirementRisk ==
  /\ scoreOut.scorer = "none"
  /\ scoreIn.age >= 0
  /\ scoreOut' = [scorer |-> "requirement", args |-> <<EvalCounts(scoreIn), requirements>>,
                  created |-> Null, risk |-> computeRequirementRisk(EvalCounts(scoreIn), requirements)]
  /\ UNCHANGED <<scoreIn, userVars, evalVars, pageVars>>

ApplyEvalRisk ==
  /\ scoreOut.scorer = "none"
  /\ scoreIn.age >= 0
  /\ \E blacklist \in BlacklistResults :
       scoreOut' = [scorer |-> "evaluate", args |-> <<blacklist, EvalCounts(scoreIn), requirements>>,
                    created |-> Null, risk |-> computeRisk_eval(blacklist, EvalCounts(scoreIn), requirements)]
  /\ UNCHANGED <<scoreIn, userVars, evalVars, pageVars>>

NextScore == ApplyUserRisk \/ ApplyGapRisk \/ ApplyRequirementRisk \/ ApplyEvalRisk

SpecScore == InitScore /\ [][NextScore]_vars

(***************************************************************************)
(* Spec: GET /api/roblox/user.  What the upstream may answer.              *)
(***************************************************************************)
\* secondary calls that failed so far, and pages that announced a further one
Faults == Cardinality({i \in 2..Len(calls) : ~Ok(calls[i].res)})

More == Cardinality({i \in 1..Len(calls) : CursorTruthy(calls[i].res.json.nextPageCursor)})

\* the calls made to one endpoint, in order
CallsTo(ep) == SelectSeq(calls, LAMBDA c : c.ep = ep)

\* the failures a secondary endpoint may answer with
SecondaryFailures == IF Faults < MaxFaults THEN {StatusRes(429), ThrowRes} ELSE {}

\* the primary profile: the account 42, created 60 days ago to the hour or
\* one hour in the future, or without a usable `created`
UserBody(created) ==
  [id |-> 42, name |-> "builder", displayName |-> Null, description |-> Null,
   isBanned |-> FALSE, created |-> created]

UserCreated ==
  { Null, Some(GarbageStr), Some(IsoAt(Now - 60 * DayLength)), Some(IsoAt(Now + 1)) }

UserResponses ==
       { OkRes([NoJson EXCEPT !.body = Some(UserBody(created))]) : created \in UserCreated }
  \cup { StatusRes(status) : status \in ErrorStatuses }
  \cup { ThrowRes }

AvatarResponses ==
       { OkRes([NoJson EXCEPT !.data = Some(<<[imageUrl |-> Some("avatar.png")]>>)]) }
  \cup SecondaryFailures

CountResponses == { OkRes([NoJson EXCEPT !.count = Some(7)]) } \cup SecondaryFailures

\* items as the upstream lists them; page k of a list holds items k01, k02, ..
FriendItem(k, i) ==
  [id |-> 100 * k + i, name |-> Some("friend"), username |-> Null, displayName |-> Null]

BadgeItem(k, i) == [id |-> 100 * k + i, name |-> Some("badge")]

NameItem(k, i) == [name |-> Some("name" \o ToString(100 * k + i)), created |-> Null]

GroupItem(i) ==
  [group |-> Some([id |-> i, name |-> Some("group")]), role |-> Some([name |-> Some("Member")])]

PageData(ep, k) ==
  CASE ep = "friends" -> [i \in 1..(IF k = 1 THEN FirstPageFriends ELSE 1) |-> FriendItem(k, i)]
    [] ep = "badges" -> [i \in 1..1 |-> BadgeItem(k, i)]
    [] ep = "names" -> [i \in 1..1 |-> NameItem(k, i)]

\* json.total of the badges list: absent, or 300 on every page
PageTotals(ep) ==
  IF ep # "badges" THEN {Null}
  ELSE IF CallsTo(ep) = << >> THEN {Null, Some(300)}
  ELSE {CallsTo(ep)[1].res.json.total}

\* the answers to the next request for a page of list `ep`
PageResponses(ep) ==
  LET k == Len(CallsTo(ep)) + 1
      nexts == {Null} \cup (IF More < MaxMore THEN {Some(c) : c \in Cursors} ELSE {})
  IN  { OkRes([NoJson EXCEPT !.data = Some(PageData(ep, k)), !.nextPageCursor = next,
                             !.total = total]) : next \in nexts, total \in PageTotals(ep) }
      \cup SecondaryFailures

GroupsResponses ==
       { OkRes([NoJson EXCEPT !.data = Some([i \in 1..GroupsListed |-> GroupItem(i)])]) }
  \cup SecondaryFailures

\* the record of one upstream call: the endpoint, the text the handler put
\* after "&cursor=" in the URL (Null: no cursor parameter), and the outcome
Call(ep, cursorText, res) == [ep |-> ep, cursorText |-> cursorText, res |-> res]

(***************************************************************************)
(* Spec: the handler, variant 1 (user/route.ts:140-428).                   *)
(***************************************************************************)
IdParams == { Null, Some(""), Some("abc"), Some("Infinity"), Some("42") }

\* Number(idParam): Null stands for a result that is not finite (NaN or an
\* infinity); the handlers only test Number.isFinite
ToNumber(str) ==
  CASE str = "42" -> Some(42)
    [] str = "" -> Some(0)
    [] OTHER -> Null

ErrorResponse(status, error) == [status |-> status, body |-> [error |-> error]]

\* sensitivity of C21: the outer catch answering as if nothing had happened
OuterCatch_swallowing == ErrorResponse(200, "Failed to fetch Roblox user data")

\* lines 421-427 (and 767-773): the handler's outer catch
OuterCatch == ErrorResponse(500, "Failed to fetch Roblox user data")

InitUser ==
  /\ variant \in {1, 2}
  /\ pc = "start"
  /\ idParam \in IdParams
  /\ UserLocalsInit(variant)

\* sensitivity of C11: the id used without the Number.isFinite test
Validate_unchecked ==
  /\ pc = "start"
  /\ IF IsNull(idParam) \/ idParam = Some("")
     THEN /\ response' = ErrorResponse(400, "Missing 'id' query parameter")
          /\ pc' = "done"
     ELSE /\ pc' = "user"
          /\ UNCHANGED response
  /\ UNCHANGED <<scoreVars, evalVars, pageVars, variant, idParam, user, avatarUrl, friends, friendsCursor, friendsVerified,
                 followersCount, followingCount, groups, groupsVerified, badges, badgesCursor,
                 totalBadges, badgesVerified, usernameHistory, namesCursor, calls>>

\* lines 142-158 (and 543-559)
Validate ==
  /\ pc = "start"
  /\ IF IsNull(idParam) \/ idParam = Some("")
     THEN /\ response' = ErrorResponse(400, "Missing 'id' query parameter")
          /\ pc' = "done"
     ELSE IF IsNull(ToNumber(idParam[1]))
     THEN /\ response' = ErrorResponse(400, "Invalid 'id' query parameter")
          /\ pc' = "done"
     ELSE /\ pc' = "user"
          /\ UNCHANGED response
  /\ UNCHANGED <<scoreVars, evalVars, pageVars, variant, idParam, user, avatarUrl, friends, friendsCursor, friendsVerified,
                 followersCount, followingCount, groups, groupsVerified, badges, badgesCursor,
                 totalBadges, badgesVerified, usernameHistory, namesCursor, calls>>

\* sensitivity of C10: the primary answer used without the status check
GetUser_unchecked ==
  /\ pc = "user"
  /\ \E res \in UserResponses :
       /\ calls' = Append(calls, Call("user", Null, res))
       /\ IF res.kind = "throw"
          THEN response' = OuterCatch /\ pc' = "done" /\ UNCHANGED user
          ELSE /\ user' = IF Ok(res) THEN res.json.body ELSE Some(UserBody(Null))
               /\ pc' = "avatar"
               /\ UNCHANGED response
  /\ UNCHANGED <<scoreVars, evalVars, pageVars, variant, idParam, avatarUrl, friends, friendsCursor, friendsVerified,
                 followersCount, followingCount, groups, groupsVerified, badges, badgesCursor,
                 totalBadges, badgesVerified, usernameHistory, namesCursor>>

\* lines 163-174 (and 564-575): the primary profile
GetUser ==
  /\ pc = "user"
  /\ \E res \in UserResponses :
       /\ calls' = Append(calls, Call("user", Null, res))
       /\ IF res.kind = "throw"
          THEN response' = OuterCatch /\ pc' = "done" /\ UNCHANGED user
          ELSE IF ~Ok(res)
          THEN /\ response' = ErrorResponse(res.status, "Failed to fetch Roblox user")
               /\ pc' = "done"
               /\ UNCHANGED user
          ELSE /\ user' = res.json.body
               /\ pc' = "avatar"
               /\ UNCHANGED response
  /\ UNCHANGED <<scoreVars, evalVars, pageVars, variant, idParam, avatarUrl, friends, friendsCursor, friendsVerified,
                 followersCount, followingCount, groups, groupsVerified, badges, badgesCursor,
                 totalBadges, badgesVerified, usernameHistory, namesCursor>>

\* lines 179-193 (and 580-594)
GetAvatar ==
  /\ pc = "avatar"
  /\ \E res \in AvatarResponses :
       /\ calls' = Append(calls, Call("avatar", Null, res))
       /\ avatarUrl' = IF Ok(res) /\ ~IsNull(res.json.data) /\ Len(res.json.data[1]) > 0
                       THEN res.json.data[1][1].imageUrl
                       ELSE Null
  /\ pc' = "friends"
  /\ UNCHANGED <<scoreVars, evalVars, pageVars, variant, idParam, user, friends, friendsCursor, friendsVerified,
                 followersCount, followingCount, groups, groupsVerified, badges, badgesCursor,
                 totalBadges, badgesVerified, usernameHistory, namesCursor, response>>

\* lines 215-221
pageFriends(json) ==
  IF IsNull(json.data) THEN << >>
  ELSE [i \in 1..Len(json.data[1]) |->
          LET f == json.data[1][i]
          IN  [id |-> f.id, username |-> Coalesce(f.name, ""),
               displayName |-> Coalesce(f.displayName, Coalesce(f.name, ""))]]

\* lines 204-205: the cursor is written into the URL as it is
friendsUrlCursor(cursor) == IF CursorTruthy(cursor) THEN cursor ELSE Null

\* sensitivity of C20: a failed friends page is requested again
GetFriends_retrying ==
  /\ variant = 1 /\ pc = "friends"
  /\ \E res \in PageResponses("friends") :
       /\ calls' = Append(calls, Call("friends", friendsUrlCursor(friendsCursor), res))
       /\ IF ~Ok(res)
          THEN /\ pc' = "friends"
               /\ UNCHANGED <<friends, friendsCursor, friendsVerified>>
          ELSE /\ friends' = friends \o pageFriends(res.json)
               /\ friendsCursor' = res.json.nextPageCursor
               /\ pc' = IF CursorTruthy(res.json.nextPageCursor) THEN "friends" ELSE "followers"
               /\ UNCHANGED friendsVerified
  /\ UNCHANGED <<scoreVars, evalVars, pageVars, variant, idParam, user, avatarUrl, followersCount, followingCount, groups,
                 groupsVerified, badges, badgesCursor, totalBadges, badgesVerified,
                 usernameHistory, namesCursor, response>>

\* sensitivity of C9: a failed page discards the friends collected so far
GetFriends_discarding ==
  /\ variant = 1 /\ pc = "friends"
  /\ \E res \in PageResponses("friends") :
       /\ calls' = Append(calls, Call("friends", friendsUrlCursor(friendsCursor), res))
       /\ IF ~Ok(res)
          THEN /\ friendsVerified' = FALSE
               /\ friends' = << >>
               /\ pc' = "followers"
               /\ UNCHANGED friendsCursor
          ELSE /\ friends' = friends \o pageFriends(res.json)
               /\ friendsCursor' = res.json.nextPageCursor
               /\ pc' = IF CursorTruthy(res.json.nextPageCursor) THEN "friends" ELSE "followers"
               /\ UNCHANGED friendsVerified
  /\ UNCHANGED <<scoreVars, evalVars, pageVars, variant, idParam, user, avatarUrl, followersCount, followingCount, groups,
                 groupsVerified, badges, badgesCursor, totalBadges, badgesVerified,
                 usernameHistory, namesCursor, response>>

\* lines 202-230: one turn of the friends loop
GetFriends ==
  /\ variant = 1 /\ pc = "friends"
  /\ \E res \in PageResponses("friends") :
       /\ calls' = Append(calls, Call("friends", friendsUrlCursor(friendsCursor), res))
       /\ IF ~Ok(res)
          THEN /\ friendsVerified' = FALSE
               /\ pc' = "followers"
               /\ UNCHANGED <<friends, friendsCursor>>
          ELSE /\ friends' = friends \o pageFriends(res.json)
               /\ friendsCursor' = res.json.nextPageCursor
               /\ pc' = IF CursorTruthy(res.json.nextPageCursor) THEN "friends" ELSE "followers"
               /\ UNCHANGED friendsVerified
  /\ UNCHANGED <<scoreVars, evalVars, pageVars, variant, idParam, user, avatarUrl, followersCount, followingCount, groups,
                 groupsVerified, badges, badgesCursor, totalBadges, badgesVerified,
                 usernameHistory, namesCursor, response>>

\* lines 240-249 (and 635-644)
GetFollowers ==
  /\ pc = "followers"
  /\ \E res \in CountResponses :
       /\ calls' = Append(calls, Call("followers", Null, res))
       /\ followersCount' = IF Ok(res) THEN Coalesce(res.json.count, 0) ELSE followersCount
  /\ pc' = "followings"
  /\ UNCHANGED <<scoreVars, evalVars, pageVars, variant, idParam, user, avatarUrl, friends, friendsCursor, friendsVerified,
                 followingCount, groups, groupsVerified, badges, badgesCursor, totalBadges,
                 badgesVerified, usernameHistory, namesCursor, response>>

\* lines 251-260 (and 646-655)
GetFollowings ==
  /\ pc = "followings"
  /\ \E res \in CountResponses :
       /\ calls' = Append(calls, Call("followings", Null, res))
       /\ followingCount' = IF Ok(res) THEN Coalesce(res.json.count, 0) ELSE followingCount
  /\ pc' = "groups"
  /\ UNCHANGED <<scoreVars, evalVars, pageVars, variant, idParam, user, avatarUrl, friends, friendsCursor, friendsVerified,
                 followersCount, groups, groupsVerified, badges, badgesCursor, totalBadges,
                 badgesVerified, usernameHistory, namesCursor, response>>

\* lines 278-283 (and 668-673)
pageGroups(json) ==
  IF IsNull(json.data) THEN << >>
  ELSE [i \in 1..Len(json.data[1]) |->
          LET g == json.data[1][i]
          IN  [id |-> g.group[1].id, name |-> Coalesce(g.group[1].name, ""),
               role |-> Coalesce(g.role[1].name, "")]]

\* sensitivity of C13: a failed groups fetch that leaves the flag untouched
GetGroups_silent ==
  /\ variant = 1 /\ pc = "groups"
  /\ \E res \in GroupsResponses :
       /\ calls' = Append(calls, Call("groups", Null, res))
       /\ IF ~Ok(res)
          THEN UNCHANGED <<groups, groupsVerified>>
          ELSE groups' = groups \o pageGroups(res.json) /\ UNCHANGED groupsVerified
  /\ pc' = "badges"
  /\ UNCHANGED <<scoreVars, evalVars, pageVars, variant, idParam, user, avatarUrl, friends, friendsCursor, friendsVerified,
                 followersCount, followingCount, badges, badgesCursor, totalBadges,
                 badgesVerified, usernameHistory, namesCursor, response>>

\* lines 268-288
GetGroups ==
  /\ variant = 1 /\ pc = "groups"
  /\ \E res \in GroupsResponses :
       /\ calls' = Append(calls, Call("groups", Null, res))
       /\ IF ~Ok(res)
          THEN groupsVerified' = FALSE /\ UNCHANGED groups
          ELSE groups' = groups \o pageGroups(res.json) /\ UNCHANGED groupsVerified
  /\ pc' = "badges"
  /\ UNCHANGED <<scoreVars, evalVars, pageVars, variant, idParam, user, avatarUrl, friends, friendsCursor, friendsVerified,
                 followersCount, followingCount, badges, badgesCursor, totalBadges,
                 badgesVerified, usernameHistory, namesCursor, response>>

\* lines 313-317 (and 698-702)
pageBadges(json) ==
  IF IsNull(json.data) THEN << >>
  ELSE [i \in 1..Len(json.data[1]) |->
          [id |-> json.data[1][i].id, name |-> Coalesce(json.data[1][i].name, "")]]

\* lines 332-336: totalBadges once the loop is left
badgesTotalAfter(verified, total, list) ==
  IF verified
  THEN (IF IsNull(total) \/ total = Some(0) THEN Some(Len(list)) ELSE total)
  ELSE Null

\* lines 300-336: one turn of the badges loop; the turn that leaves the loop
\* settles totalBadges
GetBadges ==
  /\ variant = 1 /\ pc = "badges"
  /\ \E res \in PageResponses("badges") :
       /\ calls' = Append(calls, Call("badges", friendsUrlCursor(badgesCursor), res))
       /\ IF ~Ok(res)
          THEN /\ badgesVerified' = FALSE
               /\ totalBadges' = badgesTotalAfter(FALSE, totalBadges, badges)
               /\ pc' = "names"
               /\ UNCHANGED <<badges, badgesCursor>>
          ELSE LET list == badges \o pageBadges(res.json)
                   total == IF IsNull(res.json.total) THEN totalBadges ELSE res.json.total
                   last == ~CursorTruthy(res.json.nextPageCursor)
               IN  /\ badges' = list
                   /\ badgesCursor' = res.json.nextPageCursor
                   /\ totalBadges' = IF last THEN badgesTotalAfter(TRUE, total, list) ELSE total
                   /\ pc' = IF last THEN "names" ELSE "badges"
                   /\ UNCHANGED badgesVerified
  /\ UNCHANGED <<scoreVars, evalVars, pageVars, variant, idParam, user, avatarUrl, friends, friendsCursor, friendsVerified,
                 followersCount, followingCount, groups, groupsVerified,
                 usernameHistory, namesCursor, response>>

\* lines 354-358 (and 733-737)
pageNames(json) ==
  IF IsNull(json.data) THEN << >>
  ELSE [i \in 1..Len(json.data[1]) |->
          [name |-> Coalesce(json.data[1][i].name, ""), created |-> json.data[1][i].created]]

\* lines 232, 290: the counts handed to computeRisk and to the payload
friendsCount == IF friendsVerified THEN Some(Len(friends)) ELSE Null

groupsCount == IF groupsVerified THEN Some(Len(groups)) ELSE Null

\* lines 370-380
risk ==
  computeRisk_user(riskMetrics(user[1].created, Len(friends), Len(groups),
                               Coalesce(totalBadges, 0),
                               friendsVerified, groupsVerified, badgesVerified))

\* lines 385-418: the payload, `history` being the final usernameHistory
payload(history) ==
  [profile |->
     [userId |-> user[1].id, username |-> user[1].name,
      displayName |-> Coalesce(user[1].displayName, user[1].name),
      description |-> Coalesce(user[1].description, ""),
      created |-> Coalesce(user[1].created, EmptyStr),
      isBanned |-> user[1].isBanned,
      avatarUrl |-> avatarUrl,
      friendsCount |-> Coalesce(friendsCount, 0),
      followersCount |-> followersCount,
      followingCount |-> followingCount,
      groupsCount |-> Coalesce(groupsCount, 0),
      totalBadges |-> Coalesce(totalBadges, 0),
      accountAgeDays |-> Coalesce(ageDaysOf(user[1].created), 0),
      risk |-> risk,
      requirements |-> REQUIREMENTS,
      verification |-> [friendsVerified |-> friendsVerified, groupsVerified |-> groupsVerified,
                        badgesVerified |-> badgesVerified]],
   friends |-> friends, groups |-> groups, badges |-> badges,
   usernameHistory |-> history]

\* sensitivity of C29: a username-history loop that stops after one page
GetNames_capped ==
  /\ variant = 1 /\ pc = "names"
  /\ \E res \in PageResponses("names") :
       /\ calls' = Append(calls, Call("names", friendsUrlCursor(namesCursor), res))
       /\ IF ~Ok(res)
          THEN /\ response' = [status |-> 200, body |-> payload(usernameHistory)]
               /\ pc' = "done"
               /\ UNCHANGED <<usernameHistory, namesCursor>>
          ELSE LET history == usernameHistory \o pageNames(res.json)
               IN  /\ usernameHistory' = history
                   /\ namesCursor' = res.json.nextPageCursor
                   /\ response' = [status |-> 200, body |-> payload(history)] /\ pc' = "done"
  /\ UNCHANGED <<scoreVars, evalVars, pageVars, variant, idParam, user, avatarUrl, friends, friendsCursor, friendsVerified,
                 followersCount, followingCount, groups, groupsVerified, badges, badgesCursor,
                 totalBadges, badgesVerified>>

\* lines 344-420: one turn of the username-history loop; the turn that
\* leaves the loop goes on to score the account and to send the response
GetNames ==
  /\ variant = 1 /\ pc = "names"
  /\ \E res \in PageResponses("names") :
       /\ calls' = Append(calls, Call("names", friendsUrlCursor(namesCursor), res))
       /\ IF ~Ok(res)
          THEN /\ response' = [status |-> 200, body |-> payload(usernameHistory)]
               /\ pc' = "done"
               /\ UNCHANGED <<usernameHistory, namesCursor>>
          ELSE LET history == usernameHistory \o pageNames(res.json)
                   last == ~CursorTruthy(res.json.nextPageCursor)
               IN  /\ usernameHistory' = history
                   /\ namesCursor' = res.json.nextPageCursor
                   /\ IF last
                      THEN response' = [status |-> 200, body |-> payload(history)] /\ pc' = "done"
                      ELSE pc' = "names" /\ UNCHANGED response
  /\ UNCHANGED <<scoreVars, evalVars, pageVars, variant, idParam, user, avatarUrl, friends, friendsCursor, friendsVerified,
                 followersCount, followingCount, groups, groupsVerified, badges, badgesCursor,
                 totalBadges, badgesVerified>>

(***************************************************************************)
(* Spec: the handler, variant 2 (user/route.ts:541-774).  Validation, the  *)
(* primary fetch, the avatar and the two counts read as in variant 1; the  *)
(* list loops are not wrapped in try/catch and encode the cursor.          *)
(***************************************************************************)
\* lines 613-619
pageFriends2(json) ==
  IF IsNull(json.data) THEN << >>
  ELSE [i \in 1..Len(json.data[1]) |->
          LET f == json.data[1][i]
          IN  [id |-> f.id, username |-> Coalesce(f.name, Coalesce(f.username, "")),
               displayName |-> Coalesce(f.displayName, Coalesce(f.name, Coalesce(f.username, "")))]]

\* lines 604-606 (and 689-691, 724-726)
friendsUrlCursor2(cursor) ==
  IF CursorTruthy(cursor) THEN Some(encodeURIComponent(cursor[1])) ELSE Null

\* lines 602-627: one turn of the friends loop
GetFriends2 ==
  /\ variant = 2 /\ pc = "friends"
  /\ \E res \in PageResponses("friends") :
       /\ calls' = Append(calls, Call("friends", friendsUrlCursor2(friendsCursor), res))
       /\ IF res.kind = "throw"
          THEN response' = OuterCatch /\ pc' = "done" /\ UNCHANGED <<friends, friendsCursor>>
          ELSE IF ~Ok(res)
          THEN pc' = "followers" /\ UNCHANGED <<friends, friendsCursor, response>>
          ELSE /\ friends' = friends \o pageFriends2(res.json)
               /\ friendsCursor' = res.json.nextPageCursor
               /\ pc' = IF CursorTruthy(res.json.nextPageCursor) THEN "friends" ELSE "followers"
               /\ UNCHANGED response
  /\ UNCHANGED <<scoreVars, evalVars, pageVars, variant, idParam, user, avatarUrl, friendsVerified, followersCount,
                 followingCount, groups, groupsVerified, badges, badgesCursor, totalBadges,
                 badgesVerified, usernameHistory, namesCursor>>

\* lines 660-676
GetGroups2 ==
  /\ variant = 2 /\ pc = "groups"
  /\ \E res \in GroupsResponses :
       /\ calls' = Append(calls, Call("groups", Null, res))
       /\ groups' = IF Ok(res) THEN groups \o pageGroups(res.json) ELSE groups
  /\ pc' = "badges"
  /\ UNCHANGED <<scoreVars, evalVars, pageVars, variant, idParam, user, avatarUrl, friends, friendsCursor, friendsVerified,
                 followersCount, followingCount, groupsVerified, badges, badgesCursor,
                 totalBadges, badgesVerified, usernameHistory, namesCursor, response>>

\* line 714: totalBadges once the loop is left
badgesTotalAfter2(total, list) == IF total = Some(0) THEN Some(Len(list)) ELSE total

\* lines 687-714: one turn of the badges loop; the turn that leaves the loop
\* settles totalBadges
GetBadges2 ==
  /\ variant = 2 /\ pc = "badges"
  /\ \E res \in PageResponses("badges") :
       /\ calls' = Append(calls, Call("badges", friendsUrlCursor2(badgesCursor), res))
       /\ IF res.kind = "throw"
          THEN /\ response' = OuterCatch /\ pc' = "done"
               /\ UNCHANGED <<badges, badgesCursor, totalBadges>>
          ELSE IF ~Ok(res)
          THEN /\ totalBadges' = badgesTotalAfter2(totalBadges, badges)
               /\ pc' = "names"
               /\ UNCHANGED <<badges, badgesCursor, response>>
          ELSE LET list == badges \o pageBadges(res.json)
                   total == IF IsNull(res.json.total) THEN totalBadges ELSE res.json.total
                   last == ~CursorTruthy(res.json.nextPageCursor)
               IN  /\ badges' = list
                   /\ badgesCursor' = res.json.nextPageCursor
                   /\ totalBadges' = IF last THEN badgesTotalAfter2(total, list) ELSE total
                   /\ pc' = IF last THEN "names" ELSE "badges"
                   /\ UNCHANGED response
  /\ UNCHANGED <<scoreVars, evalVars, pageVars, variant, idParam, user, avatarUrl, friends, friendsCursor, friendsVerified,
                 followersCount, followingCount, groups, groupsVerified, badgesVerified,
                 usernameHistory, namesCursor>>

\* lines 627, 678, 748-766: the payload, `history` being the final usernameHistory
payload2(history) ==
  [profile |->
     [userId |-> user[1].id, username |-> user[1].name,
      displayName |-> Coalesce(user[1].displayName, user[1].name),
      description |-> Coalesce(user[1].description, ""),
      created |-> Coalesce(user[1].created, EmptyStr),
      isBanned |-> user[1].isBanned,
      avatarUrl |-> avatarUrl,
      friendsCount |-> Len(friends),
      followersCount |-> followersCount,
      followingCount |-> followingCount,
      groupsCount |-> Len(groups),
      totalBadges |-> totalBadges[1]],
   friends |-> friends, groups |-> groups, badges |-> badges,
   usernameHistory |-> history]

\* lines 722-766: one turn of the username-history loop; the turn that
\* leaves the loop goes on to send the response
GetNames2 ==
  /\ variant = 2 /\ pc = "names"
  /\ \E res \in PageResponses("names") :
       /\ calls' = Append(calls, Call("names", friendsUrlCursor2(namesCursor), res))
       /\ IF res.kind = "throw"
          THEN response' = OuterCatch /\ pc' = "done" /\ UNCHANGED <<usernameHistory, namesCursor>>
          ELSE IF ~Ok(res)
          THEN /\ response' = [status |-> 200, body |-> payload2(usernameHistory)]
               /\ pc' = "done"
               /\ UNCHANGED <<usernameHistory, namesCursor>>
          ELSE LET history == usernameHistory \o pageNames(res.json)
                   last == ~CursorTruthy(res.json.nextPageCursor)
               IN  /\ usernameHistory' = history
                   /\ namesCursor' = res.json.nextPageCursor
                   /\ IF last
                      THEN response' = [status |-> 200, body |-> payload2(history)] /\ pc' = "done"
                      ELSE pc' = "names" /\ UNCHANGED response
  /\ UNCHANGED <<scoreVars, evalVars, pageVars, variant, idParam, user, avatarUrl, friends, friendsCursor, friendsVerified,
                 followersCount, followingCount, groups, groupsVerified, badges, badgesCursor,
                 totalBadges, badgesVerified>>

ScoreUnused == scoreIn = [age |-> 0, badges |-> 0, friends |-> 0, groups |-> 0] /\ scoreOut = ScoreIdle

Init == InitUser /\ ScoreUnused /\ EvalIdle /\ PageIdle

Next ==
  \/ Validate \/ GetUser \/ GetAvatar \/ GetFollowers \/ GetFollowings
  \/ GetFriends \/ GetGroups \/ GetBadges \/ GetNames
  \/ GetFriends2 \/ GetGroups2 \/ GetBadges2 \/ GetNames2

Spec == Init /\ [][Next]_vars

\* every awaited upstream call returns, so a handler that can take a step
\* eventually takes one
SpecLive == Spec /\ WF_vars(Next)

(***************************************************************************)
(* SpecEval: GET /api/evaluate.                                             *)
(***************************************************************************)
\* sensitivity of C16: each category weighed once, whatever its number of matches
blacklistOnlyScore_flat(blacklist) ==
    (IF Len(blacklist.blacklistedGroups) > 0 THEN 3 ELSE 0)
  + (IF Len(blacklist.blacklistedFriends) > 0 THEN 2 ELSE 0)
  + (IF Len(blacklist.crossDivision) > 0 THEN 4 ELSE 0)

\* evaluate/route.ts:373-399  computeRisk (blacklist-only variant)
blacklistOnlyScore(blacklist) ==
    (IF Len(blacklist.blacklistedGroups) > 0 THEN Len(blacklist.blacklistedGroups) * 3 ELSE 0)
  + (IF Len(blacklist.blacklistedFriends) > 0 THEN Len(blacklist.blacklistedFriends) * 2 ELSE 0)
  + (IF Len(blacklist.crossDivision) > 0 THEN Len(blacklist.crossDivision) * 4 ELSE 0)

computeRisk_blacklist(blacklist) ==
  LET score == blacklistOnlyScore(blacklist)
  IN  [level |-> IF score >= 8 THEN "High" ELSE IF score >= 3 THEN "Medium" ELSE "Low",
       score |-> score,
       factors |->
            (IF Len(blacklist.blacklistedGroups) > 0
             THEN <<"Member of blacklisted groups">> ELSE << >>)
         \o (IF Len(blacklist.blacklistedFriends) > 0
             THEN <<"Friends with blacklisted users">> ELSE << >>)
         \o (IF Len(blacklist.crossDivision) > 0
             THEN <<"Blacklisted in other divisions">> ELSE << >>),
       warnings |-> IF Len(blacklist.crossDivision) > 0
                    THEN <<"Cross-division blacklist detected">> ELSE << >>]

\* lines 78-83 (and 364-369)
DIVISION_NAMES(d) ==
  CASE d = "default" -> "Default"
    [] d = "navy" -> "Navy / Fleet"
    [] d = "intel" -> "Intelligence"
    [] d = "sf" -> "Special Forces"
    [] OTHER -> d

\* lines 248-258 (and 422-433): the blacklist result is the tables as they are
buildBlacklist(t) ==
  [blacklistedGroups |-> t.BLACKLISTED_GROUPS,
   blacklistedFriends |-> t.BLACKLISTED_FRIENDS,
   crossDivision |-> [i \in 1..Len(t.crossDivisionIds) |->
                        [divisionId |-> t.crossDivisionIds[i],
                         divisionName |-> DIVISION_NAMES(t.crossDivisionIds[i])]]]

\* the tables of the module: lines 68-76 leave them empty; entries are what
\* "replace later" would put there, for a group or friend the evaluated
\* account has (group 1, friend 101 of the upstream lists) or has not (500,
\* 900).  crossDivisionIds is the entry of CROSS_DIVISION_BLACKLIST for the
\* requested id.
\* largest number of entries in each table
MaxListed == 2

ListedGroupIds == {1, 500}

ListedFriendIds == {101, 900}

SeqsUpTo(S, n) == UNION { [1..k -> S] : k \in 0..n }

TableChoices ==
  { [BLACKLISTED_GROUPS |-> [i \in 1..Len(gs) |-> [id |-> gs[i], name |-> "Bad Group", reason |-> "Auto blacklist"]],
     BLACKLISTED_FRIENDS |-> [i \in 1..Len(fs) |-> [id |-> fs[i], username |-> "EvilAlt", reason |-> "Known alt"]],
     crossDivisionIds |-> [i \in 1..c |-> <<"navy", "intel", "sf">>[i]]] :
       gs \in SeqsUpTo(ListedGroupIds, MaxListed), fs \in SeqsUpTo(ListedFriendIds, MaxListed),
       c \in 0..MaxListed }

EvalIdParams == { Null, Some(""), Some("abc"), Some("Infinity"), Some("0"), Some("42") }

Divisions == { Null, Some("navy") }

\* Number(idParam.trim()): Null stands for a result that is not finite
ToNumberEval(str) ==
  CASE str = "42" -> Some(42)
    [] str = "0" -> Some(0)
    [] str = "" -> Some(0)
    [] OTHER -> Null

\* the `profile` of a 200 answer of /api/roblox/user for an account whose
\* user.created is `created`: user/route.ts:385-410 reports accountAgeDays
\* and created, lines 748-761 report created alone; neither puts the badges
\* or groups arrays inside profile
InnerProfile(v, created, nBadges, nFriends, nGroups) ==
  [userId |-> 42, username |-> "builder",
   created |-> Some(Coalesce(created, EmptyStr)),
   accountAgeDays |-> IF v = 1 THEN Some(Coalesce(ageDaysOf(created), 0)) ELSE Null,
   friendsCount |-> Some(nFriends), groupsCount |-> Some(nGroups),
   totalBadges |-> Some(nBadges), badgesLen |-> Null, groupsLen |-> Null]

InnerCreated ==
  { Null, Some(GarbageStr), Some(IsoAt(Now - 60 * DayLength)),
    Some(IsoAt(Now - 60 * DayLength + 1)), Some(IsoAt(Now + 1)) }

InnerProfiles ==
  { InnerProfile(v, created, nBadges, nFriends, nGroups) :
      v \in {1, 2}, created \in InnerCreated,
      nBadges \in {0, 299, 300}, nFriends \in {0, 19, 20}, nGroups \in {0, 10} }

\* what the call to /api/roblox/user may end in
InnerResponses ==
       { OkRes([NoJson EXCEPT !.body = Some(profile)]) : profile \in InnerProfiles }
  \cup { OkRes(NoJson) }
  \cup { StatusRes(status) : status \in {400, 404, 500} }
  \cup { ThrowRes }

InitEval ==
  /\ evVariant \in {1, 2}
  /\ evPc = "start"
  /\ evQuery \in [id : EvalIdParams, division : Divisions]
  /\ tables \in TableChoices
  /\ evCalls = << >>
  /\ evResponse = Null
  /\ ScoreUnused /\ UserIdle /\ PageIdle

\* lines 223-237 (and 404-419)
EvaluateValidate ==
  /\ evPc = "start"
  /\ IF IsNull(evQuery.id) \/ evQuery.id = Some("")
     THEN evResponse' = ErrorResponse(400, "Missing id") /\ evPc' = "done"
     ELSE IF IsNull(ToNumberEval(evQuery.id[1])) \/ Coalesce(ToNumberEval(evQuery.id[1]), 0) <= 0
     THEN evResponse' = ErrorResponse(400, "Invalid id") /\ evPc' = "done"
     ELSE evPc' = "evaluate" /\ UNCHANGED evResponse
  /\ UNCHANGED <<scoreVars, userVars, pageVars, evVariant, evQuery, tables, evCalls>>

\* sensitivity of C28: a non-OK inner answer passed on with its own status
EvaluateGet_forwarding ==
  /\ evVariant = 1 /\ evPc = "evaluate"
  /\ \E res \in InnerResponses :
       /\ evCalls' = Append(evCalls, Call("/api/roblox/user", Null, res))
       /\ evResponse' =
            IF res.kind = "throw"
            THEN ErrorResponse(500, "Evaluate route crashed")
            ELSE IF ~Ok(res)
            THEN ErrorResponse(res.status, "Failed to fetch Roblox profile for evaluation")
            ELSE IF IsNull(res.json.body)
            THEN ErrorResponse(500, "Roblox profile missing in response")
            ELSE LET blacklist == buildBlacklist(tables)
                     counts == buildCounts(res.json.body[1])
                 IN  [status |-> 200,
                      body |-> [blacklist |-> blacklist,
                                risk |-> computeRisk_eval(blacklist, counts, requirements),
                                requirements |-> requirements,
                                counts |-> counts]]
  /\ evPc' = "done"
  /\ UNCHANGED <<scoreVars, userVars, pageVars, evVariant, evQuery, tables>>

\* lines 240-298: the requirements, the blacklist result, the call to
\* /api/roblox/user and the response
EvaluateGet ==
  /\ evVariant = 1 /\ evPc = "evaluate"
  /\ \E res \in InnerResponses :
       /\ evCalls' = Append(evCalls, Call("/api/roblox/user", Null, res))
       /\ evResponse' =
            IF res.kind = "throw"
            THEN ErrorResponse(500, "Evaluate route crashed")
            ELSE IF ~Ok(res)
            THEN ErrorResponse(500, "Failed to fetch Roblox profile for evaluation")
            ELSE IF IsNull(res.json.body)
            THEN ErrorResponse(500, "Roblox profile missing in response")
            ELSE LET blacklist == buildBlacklist(tables)
                     counts == buildCounts(res.json.body[1])
                 IN  [status |-> 200,
                      body |-> [blacklist |-> blacklist,
                                risk |-> computeRisk_eval(blacklist, counts, requirements),
                                requirements |-> requirements,
                                counts |-> counts]]
  /\ evPc' = "done"
  /\ UNCHANGED <<scoreVars, userVars, pageVars, evVariant, evQuery, tables>>

\* lines 421-442: the blacklist-only handler
EvaluateBlacklistOnly ==
  /\ evVariant = 2 /\ evPc = "evaluate"
  /\ evResponse' = [status |-> 200,
                    body |-> [blacklist |-> buildBlacklist(tables),
                              risk |-> computeRisk_blacklist(buildBlacklist(tables))]]
  /\ evPc' = "done"
  /\ UNCHANGED <<scoreVars, userVars, pageVars, evVariant, evQuery, tables, evCalls>>

NextEval == EvaluateValidate \/ EvaluateGet \/ EvaluateBlacklistOnly

SpecEval == InitEval /\ [][NextEval]_vars

(***************************************************************************)
(* SpecDivision: GET /api/evaluate asked twice about the same account.      *)
(* After the first request was answered, a second one arrives with the      *)
(* same id and another `division`; the tables are unchanged and             *)
(* /api/roblox/user answers as it did before.                               *)
(***************************************************************************)
\* sensitivity of C30: a handler that asks the navy division for 90 days
evaluateResponse_perDivision(v, query, t, res) ==
  LET division == Coalesce(query.division, "default")
      req == IF division = "navy" THEN [requirements EXCEPT !.minAgeDays = 90]
             ELSE requirements
  IN  IF IsNull(query.id) \/ query.id = Some("")
      THEN ErrorResponse(400, "Missing id")
      ELSE IF IsNull(ToNumberEval(query.id[1])) \/ Coalesce(ToNumberEval(query.id[1]), 0) <= 0
      THEN ErrorResponse(400, "Invalid id")
      ELSE IF v = 2
      THEN [status |-> 200,
            body |-> [blacklist |-> buildBlacklist(t),
                      risk |-> computeRisk_blacklist(buildBlacklist(t))]]
      ELSE IF res.kind = "throw"
      THEN ErrorResponse(500, "Evaluate route crashed")
      ELSE IF ~Ok(res)
      THEN ErrorResponse(500, "Failed to fetch Roblox profile for evaluation")
      ELSE IF IsNull(res.json.body)
      THEN ErrorResponse(500, "Roblox profile missing in response")
      ELSE LET blacklist == buildBlacklist(t)
               counts == buildCounts(res.json.body[1])
           IN  [status |-> 200,
                body |-> [blacklist |-> blacklist,
                          risk |-> computeRisk_eval(blacklist, counts, req),
                          requirements |-> req,
                          counts |-> counts]]

\* evaluate/route.ts:221-299 (v = 1) and 403-443 (v = 2): the response of
\* the handler to `query`, `res` being the answer of its call to
\* /api/roblox/user.  `division` is the handler's divisionId, read at lines
\* 225 and 406 and dropped at lines 287 and 440 (`void divisionId`)
evaluateResponse(v, query, t, res) ==
  LET division == Coalesce(query.division, "default")
  IN  IF IsNull(query.id) \/ query.id = Some("")
      THEN ErrorResponse(400, "Missing id")
      ELSE IF IsNull(ToNumberEval(query.id[1])) \/ Coalesce(ToNumberEval(query.id[1]), 0) <= 0
      THEN ErrorResponse(400, "Invalid id")
      ELSE IF v = 2
      THEN [status |-> 200,
            body |-> [blacklist |-> buildBlacklist(t),
                      risk |-> computeRisk_blacklist(buildBlacklist(t))]]
      ELSE IF res.kind = "throw"
      THEN ErrorResponse(500, "Evaluate route crashed")
      ELSE IF ~Ok(res)
      THEN ErrorResponse(500, "Failed to fetch Roblox profile for evaluation")
      ELSE IF IsNull(res.json.body)
      THEN ErrorResponse(500, "Roblox profile missing in response")
      ELSE LET blacklist == buildBlacklist(t)
               counts == buildCounts(res.json.body[1])
           IN  [status |-> 200,
                body |-> [blacklist |-> blacklist,
                          risk |-> computeRisk_eval(blacklist, counts, requirements),
                          requirements |-> requirements,
                          counts |-> counts]]

\* the division values a request may carry: none, or one of the divisions
DivisionTags == { Null, Some("default"), Some("navy"), Some("intel") }

\* the second request: the whole handler, served with the upstream data of
\* the first
EvaluateAgain ==
  /\ evPc = "done"
  /\ \E d \in DivisionTags \ {evQuery.division} :
       LET query == [evQuery EXCEPT !.division = d]
           res == IF evCalls = << >> THEN ThrowRes ELSE evCalls[1].res
       IN  /\ evQuery' = query
           /\ evCalls' = IF evCalls = << >> THEN evCalls ELSE Append(evCalls, evCalls[1])
           /\ evResponse' = evaluateResponse(evVariant, query, tables, res)
  /\ evPc' = "again"
  /\ UNCHANGED <<scoreVars, userVars, pageVars, evVariant, tables>>

NextDivision == EvaluateValidate \/ EvaluateGet \/ EvaluateBlacklistOnly \/ EvaluateAgain

SpecDivision == InitEval /\ [][NextDivision]_vars

(***************************************************************************)
(* SpecEndpoints: one request to either inbound endpoint.                   *)
(***************************************************************************)
InitEndpoints == Init \/ InitEval

NextEndpoints ==
  \/ Validate \/ GetUser \/ GetAvatar
  \/ GetFriends \/ GetFollowers \/ GetFollowings \/ GetGroups \/ GetBadges \/ GetNames
  \/ GetFriends2 \/ GetGroups2 \/ GetBadges2 \/ GetNames2
  \/ EvaluateValidate \/ EvaluateGet \/ EvaluateBlacklistOnly

SpecEndpoints == InitEndpoints /\ [][NextEndpoints]_vars

(***************************************************************************)
(* SpecPage: the wizard of page.tsx, its three variants.                    *)
(***************************************************************************)
\* page.tsx:55-60 (and 574-579, 1244-1249)
STEPS == <<"division", "userid", "general", "eval">>

\* page.tsx:5 and 48-53: two of the four divisions
DivisionIds == {"default", "navy"}

\* what the user may have typed into the ID input
UserIdInputs == {"", "abc", "42"}

\* analyze calls started in one run of the page
MaxAnalyses == 3

\* analyze calls waiting at a fetch at the same time
MaxPending == 2

\* page.tsx:479-509  computeEvaluation
computeEvaluation(profile, division) ==
  LET total == Coalesce(profile.totalBadges, Coalesce(profile.badgesLen, 0))
      freeBadges == Coalesce(profile.badgesLen, 0)
      moderate == total > 0 /\ freeBadges * 100 >= 20 * total
      score == IF moderate THEN 12 ELSE 0
  IN  [level |-> IF score >= 40 THEN "High" ELSE IF score >= 20 THEN "Medium" ELSE "Low",
       score |-> score,
       factors |-> IF moderate THEN <<"Moderate percentage of free badges">> ELSE << >>,
       warnings |-> << >>,
       blacklistedGroups |-> << >>, blacklistedFriends |-> << >>, crossDivision |-> << >>,
       requirements |-> Null, counts |-> Null]

\* page.tsx:1253-1295  normalizeEvaluation: the nested fields of the
\* /api/evaluate answer, else the flat ones, else the defaults
normalizeEvaluation(api) ==
  LET r == api.risk
      b == api.blacklist
  IN  [level |-> IF ~IsNull(r) /\ ~IsNull(r[1].level) THEN r[1].level[1]
                 ELSE Coalesce(api.level, "Low"),
       score |-> IF ~IsNull(r) /\ ~IsNull(r[1].score) THEN r[1].score[1]
                 ELSE Coalesce(api.score, 0),
       factors |-> IF ~IsNull(r) /\ ~IsNull(r[1].factors) THEN r[1].factors[1]
                   ELSE Coalesce(api.factors, << >>),
       warnings |-> IF ~IsNull(r) /\ ~IsNull(r[1].warnings) THEN r[1].warnings[1]
                    ELSE Coalesce(api.warnings, << >>),
       blacklistedGroups |-> IF ~IsNull(b) /\ ~IsNull(b[1].blacklistedGroups)
                             THEN b[1].blacklistedGroups[1]
                             ELSE Coalesce(api.blacklistedGroups, << >>),
       blacklistedFriends |-> IF ~IsNull(b) /\ ~IsNull(b[1].blacklistedFriends)
                              THEN b[1].blacklistedFriends[1]
                              ELSE Coalesce(api.blacklistedFriends, << >>),
       crossDivision |-> IF ~IsNull(b) /\ ~IsNull(b[1].crossDivision)
                         THEN b[1].crossDivision[1]
                         ELSE Coalesce(api.crossDivision, << >>),
       requirements |-> api.requirements, counts |-> api.counts]

\* a 200 body of /api/evaluate as the page reads it (evaluate/route.ts:289-292
\* gives the nested fields; the flat ones are absent)
EvaluateBody(blacklist, counts) ==
  LET r == computeRisk_eval(blacklist, counts, requirements)
  IN  [risk |-> Some([level |-> Some(r.level), score |-> Some(r.score),
                      factors |-> Some(r.factors), warnings |-> Some(r.warnings)]),
       blacklist |-> Some([blacklistedGroups |-> Some(blacklist.blacklistedGroups),
                           blacklistedFriends |-> Some(blacklist.blacklistedFriends),
                           crossDivision |-> Some(blacklist.crossDivision)]),
       requirements |-> Some(requirements), counts |-> Some(counts),
       level |-> Null, score |-> Null, factors |-> Null, warnings |-> Null,
       blacklistedGroups |-> Null, blacklistedFriends |-> Null, crossDivision |-> Null]

\* the profiles /api/roblox/user serves to the page: an account that meets
\* every minimum, and one of the second variant without a usable age
ProfilesServed ==
  { InnerProfile(1, Some(IsoAt(Now - 60 * DayLength)), 300, 20, 10),
    InnerProfile(2, Null, 0, 0, 0) }

\* the outcomes of the page's fetch of /api/roblox/user for an id: a text
\* that is not a number is answered 400 (user/route.ts:153-158)
UserApiOutcomes(id) ==
       (IF id = "42" THEN { [kind |-> "ok", status |-> 200, profile |-> Some(pr)] : pr \in ProfilesServed }
                     ELSE {})
  \cup { [kind |-> "status", status |-> IF id = "42" THEN 404 ELSE 400, profile |-> Null],
         [kind |-> "throw", status |-> 0, profile |-> Null] }

\* the outcomes of the page's fetch of /api/evaluate
EvaluateApiOutcomes(id) ==
       (IF id = "42"
        THEN { [kind |-> "ok", status |-> 200,
                body |-> Some(EvaluateBody(NoBlacklist, buildCounts(pr)))] : pr \in ProfilesServed }
        ELSE {})
  \cup { [kind |-> "status", status |-> IF id = "42" THEN 500 ELSE 400, body |-> Null],
         [kind |-> "throw", status |-> 0, body |-> Null] }

InitPage ==
  /\ page \in {1, 2, 3}
  /\ event = "init"
  /\ PageCells
  /\ ScoreUnused /\ UserIdle /\ EvalIdle

\* page.tsx:161 (and 1426): the card of the current division; line 660: any
\* division of the list
SelectDivision ==
  /\ page # 0 /\ step = "division"
  /\ \E d \in (IF page = 2 THEN DivisionIds ELSE {divisionId}) : divisionId' = d
  /\ event' = "selectDivision"
  /\ UNCHANGED <<scoreVars, userVars, evalVars, page, step, userIdInput, loading, err,
                 pageProfile, evaluation, pageBlacklist, pageRisk, pending, analyses>>

\* page.tsx:167 (and 1431): goTo("userid"), which clears the error (lines
\* 80-83); line 678: setStep("userid")
StartScreening ==
  /\ page # 0 /\ step = "division"
  /\ step' = "userid"
  /\ err' = IF page = 2 THEN err ELSE Null
  /\ event' = "startScreening"
  /\ UNCHANGED <<scoreVars, userVars, evalVars, page, divisionId, userIdInput, loading,
                 pageProfile, evaluation, pageBlacklist, pageRisk, pending, analyses>>

\* page.tsx:182 (and 694, 1446): onChange of the ID input
TypeUserId ==
  /\ page # 0 /\ step = "userid"
  /\ \E text \in UserIdInputs : userIdInput' = text
  /\ event' = "type"
  /\ UNCHANGED <<scoreVars, userVars, evalVars, page, step, divisionId, loading, err,
                 pageProfile, evaluation, pageBlacklist, pageRisk, pending, analyses>>

\* the analyze call `req` has left its fetch
Settled(req) == pending \ {req}

\* page.tsx:124-128 (and 630-634, 1392-1396): catch and finally
AnalyzeFails(req, message) ==
  /\ err' = Some(message)
  /\ loading' = FALSE
  /\ pending' = Settled(req)
  /\ event' = "analyzeFailed"

\* page.tsx:95-108 (and 1342-1357): analyze up to its first fetch; the
\* button is disabled while loading.  Lines 602-613: the second variant,
\* which the Enter key of the input also starts, loading or not (line 695)
analyze ==
  /\ page # 0 /\ step = "userid"
  /\ loading => page = 2
  /\ analyses < MaxAnalyses /\ Cardinality(pending) < MaxPending
  /\ IF page = 2
     THEN IF userIdInput = ""
          THEN /\ event' = "analyzeInvalid"
               /\ UNCHANGED <<loading, err, pageProfile, pageBlacklist, pageRisk, pending, analyses>>
          ELSE /\ loading' = TRUE
               /\ err' = Null
               /\ pageProfile' = Null /\ pageBlacklist' = Null /\ pageRisk' = Null
               /\ pending' = pending \cup {[call |-> analyses + 1, id |-> userIdInput,
                                            division |-> divisionId, phase |-> "user",
                                            held |-> Null]}
               /\ analyses' = analyses + 1
               /\ event' = "analyzeStart"
     ELSE IF IsNull(ToNumber(userIdInput)) \/ Coalesce(ToNumber(userIdInput), 0) <= 0
          THEN /\ err' = Some("Please enter a valid numeric Roblox User ID.")
               /\ event' = "analyzeInvalid"
               /\ UNCHANGED <<loading, pageProfile, pageBlacklist, pageRisk, pending, analyses>>
          ELSE /\ loading' = TRUE
               /\ err' = Null
               /\ pending' = pending \cup {[call |-> analyses + 1, id |-> userIdInput,
                                            division |-> divisionId, phase |-> "user",
                                            held |-> Null]}
               /\ analyses' = analyses + 1
               /\ event' = "analyzeStart"
               /\ UNCHANGED <<pageProfile, pageBlacklist, pageRisk>>
  /\ UNCHANGED <<scoreVars, userVars, evalVars, page, step, divisionId, userIdInput, evaluation>>

\* analyze after its fetch of /api/roblox/user.  page.tsx:110-128: the
\* first variant scores the profile itself and ends; lines 614-621 and
\* 1359-1373: the others go on to fetch /api/evaluate, the third having
\* stored the profile
UserFetched ==
  /\ page # 0
  /\ \E req \in pending : \E out \in UserApiOutcomes(req.id) :
       /\ req.phase = "user"
       /\ IF out.kind # "ok"
          THEN /\ AnalyzeFails(req, IF out.kind = "throw" THEN "Failed to fetch"
                                    ELSE "Roblox API failed")
               /\ UNCHANGED <<step, pageProfile, evaluation>>
          ELSE IF page = 1
          THEN /\ pageProfile' = out.profile
               /\ evaluation' = Some(computeEvaluation(out.profile[1], req.division))
               /\ step' = "general"
               /\ err' = Null
               /\ loading' = FALSE
               /\ pending' = Settled(req)
               /\ event' = "analyzeDone"
          ELSE /\ pageProfile' = IF page = 3 THEN out.profile ELSE pageProfile
               /\ pending' = Settled(req)
                               \cup {[req EXCEPT !.phase = "evaluate", !.held = out.profile]}
               /\ event' = "profileFetched"
               /\ UNCHANGED <<step, err, loading, evaluation>>
  /\ UNCHANGED <<scoreVars, userVars, evalVars, page, divisionId, userIdInput,
                 pageBlacklist, pageRisk, analyses>>

\* analyze after its fetch of /api/evaluate: page.tsx:622-634 and 1375-1396
EvaluateFetched ==
  /\ page \in {2, 3}
  /\ \E req \in pending : \E out \in EvaluateApiOutcomes(req.id) :
       /\ req.phase = "evaluate"
       /\ IF out.kind # "ok"
          THEN /\ AnalyzeFails(req, IF out.kind = "throw" THEN "Failed to fetch"
                                    ELSE "Evaluation failed")
               /\ UNCHANGED <<step, pageProfile, evaluation, pageBlacklist, pageRisk>>
          ELSE /\ IF page = 2
                  THEN /\ pageProfile' = req.held
                       /\ pageBlacklist' = out.body[1].blacklist
                       /\ pageRisk' = out.body[1].risk
                       /\ UNCHANGED <<evaluation, err>>
                  ELSE /\ evaluation' = Some(normalizeEvaluation(out.body[1]))
                       /\ err' = Null
                       /\ UNCHANGED <<pageProfile, pageBlacklist, pageRisk>>
               /\ step' = "general"
               /\ loading' = FALSE
               /\ pending' = Settled(req)
               /\ event' = "analyzeDone"
  /\ UNCHANGED <<scoreVars, userVars, evalVars, page, divisionId, userIdInput, analyses>>

\* page.tsx:257-258 (and 1523-1524): goTo("eval"), disabled without an
\* evaluation; line 825: setStep("eval"), rendered with a profile (line 720)
NextToEval ==
  /\ page # 0 /\ step = "general"
  /\ IF page = 2 THEN ~IsNull(pageProfile) ELSE ~IsNull(evaluation)
  /\ step' = "eval"
  /\ err' = IF page = 2 THEN err ELSE Null
  /\ event' = "next"
  /\ UNCHANGED <<scoreVars, userVars, evalVars, page, divisionId, userIdInput, loading,
                 pageProfile, evaluation, pageBlacklist, pageRisk, pending, analyses>>

\* page.tsx:712: the Back button of the second variant
Back ==
  /\ page = 2 /\ step = "userid"
  /\ step' = "division"
  /\ event' = "back"
  /\ UNCHANGED <<scoreVars, userVars, evalVars, page, divisionId, userIdInput, loading, err,
                 pageProfile, evaluation, pageBlacklist, pageRisk, pending, analyses>>

\* page.tsx:596-600 and 646, 949: the stepper of the second variant jumps
\* to any of the four steps
onJump ==
  /\ page = 2
  /\ \E i \in 0..(Len(STEPS) - 1) : step' = STEPS[i + 1]
  /\ event' = "jump"
  /\ UNCHANGED <<scoreVars, userVars, evalVars, page, divisionId, userIdInput, loading, err,
                 pageProfile, evaluation, pageBlacklist, pageRisk, pending, analyses>>

\* sensitivity of C19: a reset that keeps the typed ID
startOver_keepingInput ==
  /\ page # 0 /\ step = "eval"
  /\ page = 2 => (~IsNull(pageProfile) /\ ~IsNull(pageRisk) /\ ~IsNull(pageBlacklist))
  /\ step' = "division"
  /\ err' = Null
  /\ pageProfile' = Null /\ evaluation' = Null /\ pageBlacklist' = Null /\ pageRisk' = Null
  /\ divisionId' = IF page = 2 THEN divisionId ELSE "default"
  /\ loading' = IF page = 2 THEN loading ELSE FALSE
  /\ event' = "startOver"
  /\ UNCHANGED <<scoreVars, userVars, evalVars, page, userIdInput, pending, analyses>>

\* page.tsx:85-93 and 339 (and 1332-1340, 1622): startOver; lines 915-926:
\* the Start Over button of the second variant, rendered with profile, risk
\* and blacklist (line 833)
startOver ==
  /\ page # 0 /\ step = "eval"
  /\ page = 2 => (~IsNull(pageProfile) /\ ~IsNull(pageRisk) /\ ~IsNull(pageBlacklist))
  /\ step' = "division"
  /\ userIdInput' = ""
  /\ err' = Null
  /\ pageProfile' = Null /\ evaluation' = Null /\ pageBlacklist' = Null /\ pageRisk' = Null
  /\ divisionId' = IF page = 2 THEN divisionId ELSE "default"
  /\ loading' = IF page = 2 THEN loading ELSE FALSE
  /\ event' = "startOver"
  /\ UNCHANGED <<scoreVars, userVars, evalVars, page, pending, analyses>>

NextPage ==
  \/ SelectDivision \/ StartScreening \/ TypeUserId \/ analyze \/ UserFetched
  \/ EvaluateFetched \/ NextToEval \/ Back \/ onJump \/ startOver

SpecPage == InitPage /\ [][NextPage]_vars

(***************************************************************************)
(* Properties of the scorers (checked under SpecScore).                    *)
(***************************************************************************)
\* Low < Medium < High, in either spelling
LevelRank(level) ==
  CASE level \in {"LOW", "Low"} -> 0
    [] level \in {"MEDIUM", "Medium"} -> 1
    [] level \in {"HIGH", "High"} -> 2

MeetsAll(in) == in.age >= 60 /\ in.badges >= 300 /\ in.friends >= 20 /\ in.groups >= 10

\* the inputs that differ from `in` in one metric only, that metric lowered
LoweredAge(in) == { [in EXCEPT !.age = a] : a \in -1 .. (in.age - 1) }

LoweredBadges(in) == { [in EXCEPT !.badges = b] : b \in 0 .. (in.badges - 1) }

LoweredFriends(in) == { [in EXCEPT !.friends = f] : f \in 0 .. (in.friends - 1) }

LoweredGroups(in) == { [in EXCEPT !.groups = g] : g \in 0 .. (in.groups - 1) }

LoweredOne(in) == LoweredAge(in) \cup LoweredBadges(in) \cup LoweredFriends(in) \cup LoweredGroups(in)

\* ... while the other three metrics are at or above their minimums
LoweredOthersMet(in) ==
       (IF in.badges >= 300 /\ in.friends >= 20 /\ in.groups >= 10 THEN LoweredAge(in) ELSE {})
  \cup (IF in.age >= 60 /\ in.friends >= 20 /\ in.groups >= 10 THEN LoweredBadges(in) ELSE {})
  \cup (IF in.age >= 60 /\ in.badges >= 300 /\ in.groups >= 10 THEN LoweredFriends(in) ELSE {})
  \cup (IF in.age >= 60 /\ in.badges >= 300 /\ in.friends >= 20 THEN LoweredGroups(in) ELSE {})

AppliedUserVerified == scoreOut.scorer = "user" /\ scoreOut.args = <<VerifiedMetrics(scoreIn)>>

\* C4 as claimed: in evaluate's computeRisk, counts that meet all four
\* minimums give level Low for every blacklist result.
C4_LowRegardlessOfBlacklist ==
  (scoreOut.scorer = "evaluate" /\ MeetsAll(scoreIn)) => scoreOut.risk.level = "Low"

\* C4, amended: in evaluate's computeRisk, when the counts meet all four
\* minimums the requirement part adds nothing, so the score is the blacklist
\* points alone; the level is Low with score 0 when the blacklist result has
\* no entry, and Medium or High as soon as it has one.
C4_LowIffNoBlacklistMatch ==
  (scoreOut.scorer = "evaluate" /\ MeetsAll(scoreIn)) =>
     LET blacklist == scoreOut.args[1]
         matches == Len(blacklist.blacklistedGroups) + Len(blacklist.blacklistedFriends)
                      + Len(blacklist.crossDivision)
     IN  /\ requirementScore(scoreOut.args[2], scoreOut.args[3]) = 0
         /\ matches = 0 => (scoreOut.risk.level = "Low" /\ scoreOut.risk.score = 0)
         /\ matches > 0 => (scoreOut.risk.level \in {"Medium", "High"} /\ scoreOut.risk.score >= 4)

C4_Witness ==
  /\ scoreOut.scorer = "evaluate"
  /\ MeetsAll(scoreIn)
  /\ Len(scoreOut.args[1].blacklistedFriends) = 1
  /\ Len(scoreOut.args[1].blacklistedGroups) = 0
  /\ Len(scoreOut.args[1].crossDivision) = 0
  /\ scoreOut.risk.level = "Medium"

\* C5: score monotonicity.  In the user-route computeRisk (all inputs
\* verified), its gap-point variant and evaluate's computeRequirementRisk,
\* lowering one metric by any amount while the other three stay at or above
\* their minimums never lowers the returned score.
C5_ScoreMonotone ==
  /\ AppliedUserVerified =>
       \A lo \in LoweredOthersMet(scoreIn) :
          userScore(VerifiedMetrics(lo)) >= scoreOut.risk.score
  /\ scoreOut.scorer = "gap" =>
       \A lo \in LoweredOthersMet(scoreIn), h \in {0, DayLength - 1} :
          gapScore(GapParams(lo, h)) >= scoreOut.risk.score
  /\ scoreOut.scorer = "requirement" =>
       \A lo \in LoweredOthersMet(scoreIn) :
          lo.age >= 0 =>
            requirementScore(EvalCounts(lo), requirements) >= scoreOut.risk.score

\* the case of C5: all four minimums met, so every metric can be lowered,
\* and the scorer returned score 0
C5_Witness ==
  /\ MeetsAll(scoreIn)
  /\ scoreIn.age = 60 /\ scoreIn.badges = 300
  /\ scoreOut.scorer = "requirement"
  /\ scoreOut.risk.score = 0
  /\ requirementScore(EvalCounts([scoreIn EXCEPT !.badges = 224]), requirements) = 5

\* C6: level monotonicity.  In the user-route computeRisk (verified inputs)
\* and evaluate's computeRisk (same blacklist), an input that differs in one
\* count only, that count being lower, never gets a lower level, whatever the
\* other three counts are.
C6_LevelMonotone ==
  /\ AppliedUserVerified =>
       \A lo \in LoweredOne(scoreIn) :
          LevelRank(userLevel(VerifiedMetrics(lo))) >= LevelRank(scoreOut.risk.level)
  /\ scoreOut.scorer = "evaluate" =>
       \A lo \in LoweredOne(scoreIn) :
          lo.age >= 0 =>
            LevelRank(evalLevel(scoreOut.args[1], EvalCounts(lo), requirements))
              >= LevelRank(scoreOut.risk.level)

\* the case of C6: a single close miss rated MEDIUM whose lowered
\* neighbours are rated HIGH
C6_Witness ==
  /\ AppliedUserVerified
  /\ scoreIn = [age |-> 59, badges |-> 300, friends |-> 20, groups |-> 10]
  /\ scoreOut.risk.level = "MEDIUM"
  /\ userLevel(VerifiedMetrics([scoreIn EXCEPT !.age = 44])) = "HIGH"

SevereOnAll(in) == in.age <= 30 /\ in.badges <= 100 /\ in.friends <= 5 /\ in.groups = 0

\* C7: an account with severe misses on all four metrics (age <= 30 days,
\* badges <= 100, friends <= 5, groups = 0) is rated HIGH by the user-route
\* computeRisk, High by its gap-point variant and High by evaluate's
\* computeRisk with empty blacklists.
C7_SevereIsHigh ==
  SevereOnAll(scoreIn) =>
    /\ AppliedUserVerified => scoreOut.risk.level = "HIGH"
    /\ scoreOut.scorer = "gap" => scoreOut.risk.level = "High"
    /\ (scoreOut.scorer = "evaluate" /\ scoreOut.args[1] = NoBlacklist) =>
          scoreOut.risk.level = "High"

\* the example of the specification: 30 days, 100 badges, 5 friends, 0 groups
C7_Witness ==
  /\ scoreIn = [age |-> 30, badges |-> 100, friends |-> 5, groups |-> 0]
  /\ scoreOut.scorer = "gap"
  /\ scoreOut.risk.score = 11
  /\ scoreOut.risk.level = "High"

(***************************************************************************)
(* Properties of GET /api/roblox/user (checked under Spec).                *)
(***************************************************************************)
Lists == {"friends", "badges", "names"}

Responded == pc = "done"

\* the array of the 200 payload that belongs to a list
Returned(ep) ==
  CASE ep = "friends" -> response.body.friends
    [] ep = "badges" -> response.body.badges
    [] ep = "names" -> response.body.usernameHistory

\* what identifies an entry: the id of a friend or badge, the name of a
\* username-history entry
ReturnedKeys(ep) ==
  [i \in 1..Len(Returned(ep)) |->
     IF ep = "names" THEN Returned(ep)[i].name ELSE Returned(ep)[i].id]

UpstreamKeys(ep, res) ==
  [i \in 1..Len(res.json.data[1]) |->
     IF ep = "names" THEN res.json.data[1][i].name[1] ELSE res.json.data[1][i].id]

\* the entries of the first n pages the upstream served for a list, in order
RECURSIVE ServedKeys(_, _)
ServedKeys(ep, n) ==
  IF n = 0 THEN << >>
  ELSE ServedKeys(ep, n - 1) \o UpstreamKeys(ep, CallsTo(ep)[n].res)

NoCallThrew == \A i \in 1..Len(calls) : calls[i].res.kind # "throw"

\* every page of the list was served and the last carried no next-cursor
AllPagesServed(ep) ==
  LET cs == CallsTo(ep)
  IN  /\ Len(cs) >= 1
      /\ \A i \in 1..Len(cs) : Ok(cs[i].res)
      /\ ~CursorTruthy(cs[Len(cs)].res.json.nextPageCursor)

\* C3: in the risk-scoring variant, every 200 response that reports
\* accountAgeDays >= 60, totalBadges >= 300, friendsCount >= 20 and
\* groupsCount >= 10 has risk level LOW, score 0 and the single neutral
\* factor "Meets all BGC requirements."
C3_MeetsAllIsLow ==
  (Responded /\ variant = 1 /\ response.status = 200) =>
     LET profile == response.body.profile
     IN  (/\ profile.accountAgeDays >= 60 /\ profile.totalBadges >= 300
          /\ profile.friendsCount >= 20 /\ profile.groupsCount >= 10)
         => /\ profile.risk.level = "LOW"
            /\ profile.risk.score = 0
            /\ profile.risk.factors = <<"Meets all BGC requirements.">>

\* the account exactly at the four minimums: 60 days, 300 badges, 20 friends
\* (two pages), 10 groups
C3_Witness ==
  /\ Responded /\ variant = 1 /\ response.status = 200
  /\ response.body.profile.accountAgeDays = 60
  /\ response.body.profile.totalBadges = 300
  /\ response.body.profile.friendsCount = 20
  /\ response.body.profile.groupsCount = 10
  /\ response.body.profile.risk.level = "LOW"

\* C8 as claimed: each paginated list (friends, badges, username history)
\* is requested one page at a time, the first request without a cursor and
\* every later one carrying exactly the next-cursor of the page before it;
\* no request follows a page without a next-cursor; and once all pages were
\* served the returned array is the concatenation of the pages in order.
C8_PaginationFollowsCursors ==
  \A ep \in Lists :
    LET cs == CallsTo(ep)
    IN  /\ Len(cs) >= 1 => IsNull(CursorReceived(cs[1]))
        /\ \A i \in 2..Len(cs) :
             /\ Ok(cs[i - 1].res)
             /\ CursorTruthy(cs[i - 1].res.json.nextPageCursor)
             /\ CursorReceived(cs[i]) = cs[i - 1].res.json.nextPageCursor
        /\ (Responded /\ response.status = 200 /\ AllPagesServed(ep)) =>
             ReturnedKeys(ep) = ServedKeys(ep, Len(cs))

\* a list failed on page k > 1 with a non-2xx answer after k-1 served pages
FailedMidway(ep) ==
  LET cs == CallsTo(ep)
  IN  /\ Len(cs) >= 2
      /\ cs[Len(cs)].res.kind = "status"
      /\ \A i \in 1..(Len(cs) - 1) : Ok(cs[i].res)

C10_PrimaryFailureIsFatal ==
  /\ (Len(calls) >= 1 /\ calls[1].res.kind = "status") =>
        /\ Len(calls) = 1
        /\ Responded
        /\ response = ErrorResponse(calls[1].res.status, "Failed to fetch Roblox user")
  /\ \A i \in 1..Len(calls) :
        calls[i].ep # "user" => (i > 1 /\ calls[1].ep = "user" /\ Ok(calls[1].res))

C10_Witness ==
  /\ Responded
  /\ Len(calls) = 1 /\ calls[1].ep = "user" /\ calls[1].res = StatusRes(404)
  /\ response.status = 404

(***************************************************************************)
(* Properties of GET /api/evaluate (checked under SpecEval).               *)
(***************************************************************************)
EvalAnswered == evPc = "done" /\ evVariant = 1 /\ evResponse.status = 200

\* the profile the inner call returned
EvalProfile == evCalls[1].res.json.body[1]

\* the profile carries no usable account age: accountAgeDays is absent or
\* not positive, and created is missing, empty or does not parse
NoUsableAge(profile) ==
  /\ IsNull(profile.accountAgeDays) \/ profile.accountAgeDays[1] <= 0
  /\ ~Truthy(profile.created) \/ IsNull(DateGetTime(profile.created[1]))

\* the entries with which the scorers of the repository say that the age
\* could not be verified (user/route.ts:45 and 530)
CouldNotVerifyAge ==
  { "Could not verify account age.",
    "Could not determine account age (missing/invalid created date)." }

\* C2 as claimed: when the profile returned by the user endpoint carries no
\* usable account age, the risk level of /api/evaluate is at least Medium
\* and its factors or warnings hold an explicit "could not verify age" entry.
C2_UnknownAgeIsFlagged ==
  (EvalAnswered /\ NoUsableAge(EvalProfile)) =>
     LET r == evResponse.body.risk
     IN  /\ r.level \in {"Medium", "High"}
         /\ \E i \in 1..Len(r.factors \o r.warnings) :
              (r.factors \o r.warnings)[i] \in CouldNotVerifyAge

\* C1: in the risk-scoring variant, when the primary profile has no created
\* field or one that does not parse to a date, the returned risk level is
\* never LOW and the factors hold "Could not verify account age.", for every
\* combination of badge, friend and group counts.
C1_UnknownAgeNeverLow ==
  (scoreOut.scorer = "user" /\ scoreOut.created \in CreatedUnknown) =>
     /\ scoreOut.risk.level \in {"MEDIUM", "HIGH"}
     /\ \E i \in 1..Len(scoreOut.risk.factors) :
          scoreOut.risk.factors[i] = "Could not verify account age."

\* an unparseable created with every count at or above its minimum and
\* every list verified
C1_Witness ==
  /\ scoreOut.scorer = "user"
  /\ scoreOut.created = Some(GarbageStr)
  /\ scoreIn.badges = 300 /\ scoreIn.friends = 20 /\ scoreIn.groups = 10
  /\ scoreOut.args[1].friendsVerified /\ scoreOut.args[1].badgesVerified
  /\ scoreOut.args[1].groupsVerified
  /\ scoreOut.risk.level = "HIGH"
  /\ scoreOut.risk.factors[1] = "Could not verify account age."

(***************************************************************************)
(* Properties of both inbound endpoints (checked under SpecEndpoints).      *)
(***************************************************************************)
\* texts that do not parse to a finite number
NotFiniteTexts == { "abc", "Infinity" }

\* the id parameter is missing, empty or does not parse to a finite number
BadId(id) == IsNull(id) \/ id = Some("") \/ (\E t \in NotFiniteTexts : id = Some(t))

\* C11: both inbound endpoints answer a request whose id parameter is
\* missing, empty or does not parse to a finite number with status 400, and
\* make no outbound call for it: no upstream fetch from /api/roblox/user, no
\* call to /api/roblox/user from /api/evaluate.
C11_BadIdRejected ==
  /\ (variant # 0 /\ BadId(idParam)) =>
        /\ calls = << >>
        /\ pc = "done" => response.status = 400
        /\ pc \in {"start", "done"}
  /\ (evVariant # 0 /\ BadId(evQuery.id)) =>
        /\ evCalls = << >>
        /\ evPc = "done" => evResponse.status = 400
        /\ evPc \in {"start", "done"}

\* a text that is not a number has been rejected by the aggregator
C11_Witness ==
  /\ variant = 1 /\ idParam = Some("abc") /\ pc = "done"
  /\ response = ErrorResponse(400, "Invalid 'id' query parameter")
  /\ calls = << >>

(***************************************************************************)
(* Degradation of the aggregator (checked under Spec).                      *)
(***************************************************************************)
\* the primary profile fetch succeeded
PrimaryOk == Len(calls) >= 1 /\ calls[1].ep = "user" /\ Ok(calls[1].res)

\* the first call to a secondary endpoint failed, by its status or by a throw
FailedOutright(ep) == Len(CallsTo(ep)) >= 1 /\ ~Ok(CallsTo(ep)[1].res)

\* the field of the 200 payload fed by a secondary endpoint is empty, zero or null
FieldEmpty(ep) ==
  CASE ep = "avatar" -> IsNull(response.body.profile.avatarUrl)
    [] ep = "friends" -> response.body.friends = << >>
    [] ep = "followers" -> response.body.profile.followersCount = 0
    [] ep = "followings" -> response.body.profile.followingCount = 0
    [] ep = "groups" -> response.body.groups = << >>
    [] ep = "badges" -> response.body.badges = << >>
    [] ep = "names" -> response.body.usernameHistory = << >>

Secondaries == {"avatar", "friends", "followers", "followings", "groups", "badges", "names"}

\* C12 as claimed: once the primary profile fetch has succeeded, both
\* variants of GET /api/roblox/user respond 200 whatever secondary endpoints
\* fail (by a non-2xx response or by a throw), and the field of an endpoint
\* that failed is returned empty, zero or null.
C12_SecondaryFailuresTolerated ==
  (Responded /\ PrimaryOk) =>
     /\ response.status = 200
     /\ \A ep \in Secondaries : FailedOutright(ep) => FieldEmpty(ep)

\* the metrics GET hands to computeRisk (user/route.ts:372-380)
MetricsScored ==
  riskMetrics(user[1].created, Len(friends), Len(groups), Coalesce(totalBadges, 0),
              friendsVerified, groupsVerified, badgesVerified)

\* some call to the endpoint failed, by its status or by a throw
FetchFailed(ep) == \E i \in 1..Len(CallsTo(ep)) : ~Ok(CallsTo(ep)[i].res)

VerificationFlag(ep) ==
  CASE ep = "friends" -> response.body.profile.verification.friendsVerified
    [] ep = "groups" -> response.body.profile.verification.groupsVerified
    [] ep = "badges" -> response.body.profile.verification.badgesVerified

CountScored(ep) ==
  CASE ep = "friends" -> MetricsScored.friends
    [] ep = "groups" -> MetricsScored.groups
    [] ep = "badges" -> MetricsScored.badges

CouldNotVerify(ep) ==
  CASE ep = "friends" -> "Could not verify friends list/count."
    [] ep = "groups" -> "Could not verify groups."
    [] ep = "badges" -> "Could not verify badge count."

\* C13: in the risk-scoring variant, whenever the friends, groups or badges
\* fetch fails (non-2xx on any page, or a throw) the matching flag of
\* profile.verification is false, the count handed to the scorer is null,
\* risk.factors holds the matching "Could not verify ..." string and the
\* level is not LOW; and a flag is false only if that fetch failed.
C13_FailedFetchIsUnverified ==
  (Responded /\ variant = 1 /\ response.status = 200) =>
     \A ep \in {"friends", "groups", "badges"} :
        /\ VerificationFlag(ep) = ~FetchFailed(ep)
        /\ FetchFailed(ep) =>
             /\ IsNull(CountScored(ep))
             /\ \E i \in 1..Len(response.body.profile.risk.factors) :
                  response.body.profile.risk.factors[i] = CouldNotVerify(ep)
             /\ response.body.profile.risk.level # "LOW"

\* the second friends page failed while groups and badges were fetched
C13_Witness ==
  /\ Responded /\ variant = 1 /\ response.status = 200
  /\ Len(CallsTo("friends")) = 2 /\ FetchFailed("friends")
  /\ ~FetchFailed("groups") /\ ~FetchFailed("badges")
  /\ ~response.body.profile.verification.friendsVerified
  /\ response.body.profile.verification.groupsVerified
  /\ response.body.profile.risk.level # "LOW"

(***************************************************************************)
(* The blacklist layer of /api/evaluate (checked under SpecScore).          *)
(***************************************************************************)
Matches(blacklist) ==
  Len(blacklist.blacklistedGroups) + Len(blacklist.blacklistedFriends)
    + Len(blacklist.crossDivision)

\* C14: in evaluate's computeRisk the final score is at least the score
\* computeRequirementRisk gives for the same counts, with equality exactly
\* when the blacklist result has no blacklisted group, no blacklisted friend
\* and no cross-division entry; and the level is never lower than the level
\* the same counts get without blacklist matches.
C14_BlacklistOnlyAdds ==
  scoreOut.scorer = "evaluate" =>
     LET blacklist == scoreOut.args[1]
         counts == scoreOut.args[2]
         req == scoreOut.args[3]
     IN  /\ scoreOut.risk.score >= requirementScore(counts, req)
         /\ (scoreOut.risk.score = requirementScore(counts, req)) <=> (Matches(blacklist) = 0)
         /\ LevelRank(scoreOut.risk.level) >= LevelRank(evalLevel(NoBlacklist, counts, req))

\* a single cross-division entry on top of an age short by one day: the
\* requirement score 2 becomes 10 and Low becomes Medium
C14_Witness ==
  /\ scoreOut.scorer = "evaluate"
  /\ scoreIn = [age |-> 59, badges |-> 300, friends |-> 20, groups |-> 10]
  /\ Len(scoreOut.args[1].crossDivision) = 1
  /\ Len(scoreOut.args[1].blacklistedGroups) = 0
  /\ Len(scoreOut.args[1].blacklistedFriends) = 0
  /\ scoreOut.risk.score = 10
  /\ scoreOut.risk.level = "Medium"
  /\ evalLevel(NoBlacklist, scoreOut.args[2], scoreOut.args[3]) = "Low"

(***************************************************************************)
(* The blacklist result of GET /api/evaluate (checked under SpecEval).      *)
(***************************************************************************)
\* the groups and friends the upstream lists for the evaluated account: no
\* resolved group or friend set of the account holds an id outside them
AccountGroupIds == { GroupItem(i).group[1].id : i \in 1..GroupsListed }

AccountFriendIds ==
  { FriendItem(k, i).id : k \in 1..(MaxMore + 1), i \in 1..FirstPageFriends }

\* C15 as claimed: the blacklistedGroups and blacklistedFriends lists
\* returned by GET /api/evaluate hold only entries whose id is in the
\* evaluated account's own group set and friend set, whatever the static
\* tables hold.
C15_BlacklistIsIntersected ==
  (evPc = "done" /\ evResponse.status = 200) =>
     LET blacklist == evResponse.body.blacklist
     IN  /\ \A i \in 1..Len(blacklist.blacklistedGroups) :
              blacklist.blacklistedGroups[i].id \in AccountGroupIds
         /\ \A i \in 1..Len(blacklist.blacklistedFriends) :
              blacklist.blacklistedFriends[i].id \in AccountFriendIds

\* the number of times a string occurs in a list
Occurrences(list, str) == Cardinality({ i \in 1..Len(list) : list[i] = str })

\* the per-match weights and the strings of the two variants of computeRisk
\* (evaluate/route.ts:189-203 and 378-392)
CategoryRules(v) ==
  IF v = 1
  THEN [groups |-> 6, friends |-> 5, cross |-> 8,
        groupsFactor |-> "Member of blacklisted groups.",
        friendsFactor |-> "Friends with blacklisted users.",
        crossFactor |-> "Blacklisted in other divisions.",
        crossWarning |-> "Cross-division blacklist detected."]
  ELSE [groups |-> 3, friends |-> 2, cross |-> 4,
        groupsFactor |-> "Member of blacklisted groups",
        friendsFactor |-> "Friends with blacklisted users",
        crossFactor |-> "Blacklisted in other divisions",
        crossWarning |-> "Cross-division blacklist detected"]

\* C16: in both variants of evaluate's computeRisk, risk.warnings holds the
\* cross-division warning if and only if the blacklist result has at least
\* one cross-division entry; and each blacklist category with at least one
\* match adds its per-match weight times the number of matches to the score
\* and exactly one factor string of that category, a category without a
\* match adding neither.
C16_CategoryWeightsAndWarning ==
  (evPc = "done" /\ evResponse.status = 200) =>
     LET blacklist == evResponse.body.blacklist
         r == evResponse.body.risk
         rules == CategoryRules(evVariant)
         base == IF evVariant = 1
                 THEN requirementScore(evResponse.body.counts, evResponse.body.requirements)
                 ELSE 0
         nGroups == Len(blacklist.blacklistedGroups)
         nFriends == Len(blacklist.blacklistedFriends)
         nCross == Len(blacklist.crossDivision)
     IN  /\ (Occurrences(r.warnings, rules.crossWarning) >= 1) <=> (nCross >= 1)
         /\ Len(r.warnings) = (IF nCross >= 1 THEN 1 ELSE 0)
         /\ r.score = base + rules.groups * nGroups + rules.friends * nFriends
                           + rules.cross * nCross
         /\ Occurrences(r.factors, rules.groupsFactor) = (IF nGroups >= 1 THEN 1 ELSE 0)
         /\ Occurrences(r.factors, rules.friendsFactor) = (IF nFriends >= 1 THEN 1 ELSE 0)
         /\ Occurrences(r.factors, rules.crossFactor) = (IF nCross >= 1 THEN 1 ELSE 0)

\* the blacklist-only variant with two groups, one friend and two
\* cross-division entries: 2 * 3 + 2 + 2 * 4 = 16
C16_Witness ==
  /\ evPc = "done" /\ evVariant = 2 /\ evResponse.status = 200
  /\ Len(evResponse.body.blacklist.blacklistedGroups) = 2
  /\ Len(evResponse.body.blacklist.blacklistedFriends) = 1
  /\ Len(evResponse.body.blacklist.crossDivision) = 2
  /\ evResponse.body.risk.score = 16
  /\ evResponse.body.risk.warnings = <<"Cross-division blacklist detected">>

(***************************************************************************)
(* Properties of the wizard (checked under SpecPage).                       *)
(***************************************************************************)
\* the position of a step in STEPS, from 0
StepIndex(st) == CHOOSE i \in 0..(Len(STEPS) - 1) : STEPS[i + 1] = st

\* C17 as claimed: in every variant of the page, right after an analyze
\* action has ended in failure (invalid ID input, a non-OK answer of either
\* API call, or a thrown error) the error message is set, loading is false
\* and the step is the ID-entry stage 'userid', whatever the user did while
\* the request was in flight.
C17_FailedAnalyzeReturnsToInput ==
  event \in {"analyzeInvalid", "analyzeFailed"} =>
     /\ ~IsNull(err)
     /\ ~loading
     /\ step = "userid"

\* C18 as claimed: in every variant of the page the step only changes to
\* the immediate successor of the current stage, to its immediate
\* predecessor, or to 'division' by the reset; and it enters 'general' from
\* 'userid' only by a successful analyze.
C18_LinearFlow ==
  [][ \/ step' = step
      \/ /\ StepIndex(step') = StepIndex(step) + 1
         /\ step' = "general" => event' = "analyzeDone"
      \/ StepIndex(step') = StepIndex(step) - 1
      \/ step' = "division" /\ event' = "startOver" ]_vars

\* C19: in every variant of the page, right after Start Over the step is
\* 'division', the ID input is empty, and the stored profile, the stored
\* evaluation (or risk and blacklist) and the error message are all null,
\* from whatever reachable state it was invoked.
C19_StartOverResets ==
  event = "startOver" =>
     /\ step = "division"
     /\ userIdInput = ""
     /\ IsNull(pageProfile) /\ IsNull(evaluation)
     /\ IsNull(pageBlacklist) /\ IsNull(pageRisk)
     /\ IsNull(err)

\* the reset of the second variant, invoked while another analyze call was
\* still waiting at its fetch
C19_Witness ==
  /\ event = "startOver" /\ page = 2
  /\ pending # {}
  /\ step = "division" /\ userIdInput = "" /\ IsNull(pageProfile)

(***************************************************************************)
(* Retries of the aggregator (checked under Spec).                          *)
(***************************************************************************)
SingleCallEndpoints == {"user", "avatar", "followers", "followings", "groups"}

\* C20: within one GET /api/roblox/user request no call follows a failed
\* call (non-2xx or thrown) to the same upstream endpoint, and the primary
\* profile, avatar, followers-count, followings-count and groups endpoints
\* are each called at most once.
C20_NoRetries ==
  /\ \A i \in 1..Len(calls) : \A j \in (i + 1)..Len(calls) :
       calls[i].ep = calls[j].ep => Ok(calls[i].res)
  /\ \A ep \in SingleCallEndpoints : Len(CallsTo(ep)) <= 1

\* the second friends page failed, the handler went on to the other
\* endpoints and answered without a third friends request
C20_Witness ==
  /\ Responded /\ response.status = 200
  /\ Len(CallsTo("friends")) = 2
  /\ ~Ok(CallsTo("friends")[2].res)
  /\ Len(CallsTo("groups")) = 1 /\ Len(CallsTo("names")) >= 1

(***************************************************************************)
(* The status contract of the aggregator (checked under Spec).             *)
(***************************************************************************)
\* the last upstream call made threw
LastCallThrew == Len(calls) >= 1 /\ calls[Len(calls)].res.kind = "throw"

\* the calls the handler wraps in a try/catch of their own: every secondary
\* call in variant 1; in variant 2 the avatar, the two counts and the groups
GuardedEndpoints(v) ==
  IF v = 1 THEN Secondaries ELSE {"avatar", "followers", "followings", "groups"}

StatusContract ==
  /\ Responded <=> ~IsNull(response)
  /\ Responded =>
       /\ response.status \in {400, 200, 500} \cup ErrorStatuses
       /\ response.status = 400 => BadId(idParam) /\ calls = << >>
       /\ response.status \in ErrorStatuses =>
            Len(calls) = 1 /\ calls[1].res = StatusRes(response.status)
       /\ response.status = 200 => ~BadId(idParam) /\ PrimaryOk
       /\ response.status = 500 =>
            LastCallThrew /\ calls[Len(calls)].ep \notin GuardedEndpoints(variant)

\* C21: a request to GET /api/roblox/user gets exactly one response; its
\* status is 400, the primary upstream's non-2xx status, 200 or 500; 200
\* only with a valid id and a 2xx primary profile, 500 only when a call
\* threw outside the per-field try/catch blocks.
C21_StatusContract ==
  /\ []StatusContract
  /\ [][~IsNull(response) => response' = response]_vars

\* variant 2 answered 500 because a page of a list threw after the primary
\* profile had been fetched
C21_Witness ==
  /\ Responded /\ response.status = 500
  /\ variant = 2 /\ PrimaryOk /\ Len(calls) >= 3

(***************************************************************************)
(* The counts of the 200 responses (checked under SpecEndpoints).          *)
(***************************************************************************)
\* the counts a 200 response of GET /api/roblox/user reports in its profile
UserCounts ==
  LET profile == response.body.profile
  IN  {profile.friendsCount, profile.groupsCount, profile.totalBadges}
      \cup (IF variant = 1 THEN {profile.accountAgeDays} ELSE {})

\* the counts a 200 response of GET /api/evaluate reports
EvaluateCounts ==
  LET counts == evResponse.body.counts
  IN  {counts.accountAgeDays, counts.friendsCount, counts.groupsCount, counts.totalBadges}

\* C22: in every 200 response of GET /api/roblox/user and of
\* GET /api/evaluate, accountAgeDays, friendsCount, groupsCount and
\* totalBadges are >= 0, also when the creation timestamp lies after the
\* server's current time and when secondary fetches fail.
C22_CountsNonNegative ==
  /\ Responded /\ response.status = 200 => \A n \in UserCounts : n >= 0
  /\ EvalAnswered => \A n \in EvaluateCounts : n >= 0

(***************************************************************************)
(* Close misses in evaluate's computeRisk (checked under SpecScore).        *)
(***************************************************************************)
\* the requirements the counts fail
FailedRequirements(counts) ==
     (IF counts.accountAgeDays < 60 THEN {"age"} ELSE {})
  \cup (IF counts.totalBadges < 300 THEN {"badges"} ELSE {})
  \cup (IF counts.friendsCount < 20 THEN {"friends"} ELSE {})
  \cup (IF counts.groupsCount < 10 THEN {"groups"} ELSE {})

\* exactly one requirement is missed, within the margin the rule comment
\* calls close (evaluate/route.ts:116-125, 130-134)
CloseMiss(counts) ==
  \/ FailedRequirements(counts) = {"age"} /\ counts.accountAgeDays \in 50..59
  \/ FailedRequirements(counts) = {"badges"} /\ counts.totalBadges \in 225..299
  \/ FailedRequirements(counts) = {"friends"} /\ counts.friendsCount \in 15..19
  \/ FailedRequirements(counts) = {"groups"} /\ counts.groupsCount \in 7..9

\* C23: in evaluate's computeRisk with no blacklist matches, an account
\* that misses exactly one requirement by a close margin, the other three
\* met, is rated Medium, and no account failing a requirement is rated Low.
C23_CloseMissIsMedium ==
  scoreOut.scorer = "evaluate" /\ Matches(scoreOut.args[1]) = 0 =>
     LET counts == scoreOut.args[2]
     IN  /\ CloseMiss(counts) => scoreOut.risk.level = "Medium"
         /\ FailedRequirements(counts) # {} => scoreOut.risk.level # "Low"

(***************************************************************************)
(* The levels of the user-route computeRisk (checked under SpecScore).      *)
(***************************************************************************)
\* the values of the four metrics, in the order age, badges, friends, groups
MetricValues(metrics) == <<metrics.ageDays, metrics.badges, metrics.friends, metrics.groups>>

MetricMinimums == <<60, 300, 20, 10>>

MetricSevereBelow == <<45, 150, 10, 5>>

\* the requirements not met: a metric that could not be read counts as 0
MetricsFailed(metrics) ==
  { i \in 1..4 : Coalesce(MetricValues(metrics)[i], 0) < MetricMinimums[i] }

MetricsSevere(metrics) ==
  { i \in 1..4 : Coalesce(MetricValues(metrics)[i], 0) < MetricSevereBelow[i] }

AllVerified(metrics) ==
  /\ ~IsNull(metrics.ageDays)
  /\ metrics.friendsVerified /\ metrics.badgesVerified /\ metrics.groupsVerified

C25_CountsMatchLists ==
  Responded /\ response.status = 200 =>
     /\ response.body.profile.friendsCount = Len(response.body.friends)
     /\ response.body.profile.groupsCount = Len(response.body.groups)

(***************************************************************************)
(* Analyses in flight and the data stages of the wizard (checked under      *)
(* SpecPage).                                                               *)
(***************************************************************************)
\* C26: in every page variant at most one analyze call is pending at a
\* time: while one is pending (loading is true) no click, Enter key or
\* stepper navigation starts a second one.
C26_OneAnalysisInFlight ==
  /\ Cardinality(pending) <= 1
  /\ pending # {} => loading

\* the data the stages 'general' and 'eval' show
DataFetched ==
  /\ ~IsNull(pageProfile)
  /\ IF page = 2 THEN ~IsNull(pageRisk) /\ ~IsNull(pageBlacklist) ELSE ~IsNull(evaluation)

\* C27: in every page variant and every reachable state, at step 'general'
\* or 'eval' the stored profile and the stored evaluation (or risk and
\* blacklist) are non-null: the data stages are never shown without
\* fetched data.
C27_DataStagesHaveData ==
  step \in {"general", "eval"} => DataFetched

(***************************************************************************)
(* The inner call of GET /api/evaluate (checked under SpecEval).            *)
(***************************************************************************)
\* the handler that calls /api/roblox/user has answered
EvalResponded == evPc = "done" /\ evVariant = 1

\* the inner call was made, answered 2xx and carried a profile
InnerSucceeded ==
  /\ Len(evCalls) = 1
  /\ Ok(evCalls[1].res)
  /\ ~IsNull(evCalls[1].res.json.body)

\* C28: when the call from GET /api/evaluate to /api/roblox/user returns
\* non-OK, whatever its status, or a body without a profile, the handler
\* answers 500, never the inner status and never a risk result; a risk
\* result is returned only after a successful inner call.
C28_InnerFailureIs500 ==
  EvalResponded =>
     /\ Len(evCalls) = 1 /\ ~InnerSucceeded =>
          evResponse.status = 500 /\ "risk" \notin DOMAIN evResponse.body
     /\ "risk" \in DOMAIN evResponse.body => InnerSucceeded /\ evResponse.status = 200

\* the inner call answered 404 for an unknown account and the handler
\* answered 500
C28_Witness ==
  /\ EvalResponded
  /\ Len(evCalls) = 1 /\ evCalls[1].res = StatusRes(404)
  /\ evResponse.status = 500

(***************************************************************************)
(* Termination of the aggregator (checked under SpecLive, where every       *)
(* upstream call returns and the upstream announces at most MaxMore         *)
(* further pages).                                                          *)
(***************************************************************************)
\* the handler has no page limit of its own: after a 2xx page of a list
\* that carries a next-cursor it is back at the head of the same loop
KeepsPaging ==
  \A ep \in Lists :
     LET made == CallsTo(ep)
     IN  (/\ made # << >>
          /\ calls[Len(calls)].ep = ep
          /\ Ok(made[Len(made)].res)
          /\ CursorTruthy(made[Len(made)].res.json.nextPageCursor)) => pc = ep

\* C29: if every upstream call returns and each paginated list eventually
\* yields a page without next-cursor or a non-2xx answer, the handler of
\* GET /api/roblox/user eventually sends its response; the handler puts no
\* bound on the number of pages and asks for the next page as long as the
\* upstream announces one.
C29_Terminates ==
  /\ <>Responded
  /\ []KeepsPaging

\* the username history announced every further page the upstream was
\* allowed to announce; the handler followed them all and then answered
C29_Witness ==
  /\ Responded /\ response.status = 200
  /\ Len(CallsTo("names")) = MaxMore + 1
  /\ \A i \in 1..MaxMore : CursorTruthy(CallsTo("names")[i].res.json.nextPageCursor)

(***************************************************************************)
(* The division tag (checked under SpecDivision).                           *)
(***************************************************************************)
\* C30: two requests to GET /api/evaluate with the same id and the same
\* upstream data but different `division` values (or none) get the same
\* blacklist, risk, requirements and counts: the answer to the second
\* request is the answer the first one got.
C30_DivisionIgnored ==
  [][evPc' = "again" => evResponse' = evResponse]_vars

\* the second request was answered 200 by the handler that scores the
\* requirements, for an account with a cross-division entry
C30_Witness ==
  /\ evPc = "again" /\ evVariant = 1
  /\ evResponse.status = 200
  /\ Len(evCalls) = 2
  /\ evQuery.division = Some("navy")
  /\ Len(evResponse.body.blacklist.crossDivision) >= 1

====
